---- MODULE Spec2Model ----
(***************************************************************************)
(* slopjail: a sandbox that runs untrusted JavaScript in a Worker hosted   *)
(* by a sandboxed iframe.  The model covers the host orchestrator          *)
(* (createSandbox, extractMethods, onMethod, run, dispose), the relay      *)
(* script inside the iframe, and the guest runtime of the worker           *)
(* (setGlobals / injectMethods, run).                                      *)
(*                                                                         *)
(* JavaScript values are tagged records:                                   *)
(*   [tag |-> "num", v |-> n]      a number                                *)
(*   [tag |-> "str", s |-> t]      a string                                *)
(*   [tag |-> "null"]              null                                    *)
(*   [tag |-> "undef"]             undefined ("no value")                  *)
(*   [tag |-> "fn", f |-> name]    a host function value                   *)
(*   [tag |-> "proxy", methodId |-> v]  the guest closure of injectMethods *)
(*   [tag |-> "obj", kids |-> <<e1, ..., en>>]  an object; its entries     *)
(*        are <<key, value>> pairs in insertion order (Object.entries)     *)
(*   [tag |-> "ret", f |-> name, args |-> a]  the value host function f    *)
(*        returns for the argument list a                                  *)
(***************************************************************************)
EXTENDS Integers, Sequences, FiniteSets, TLC

\* ------------------------------------------------------------------ bounds
\* Longest caller-written policy text drawn character by character.
MaxPolicyLen == 3

\* Objects on the prototype chain of the guest global, the global included.
ChainDepth == 3

\* Number of run() calls on each of two sessions that exist side by side.
MaxPairRuns == 2

\* Number of run() calls the embedding application issues on the session.
MaxRuns == 2

\* Longest argument list a sandboxed call passes.
MaxArgs == 2

\* Most values (data, functions, nested objects) one opts.globals graph holds.
MaxNodes == 4

\* Calls of extractMethods the engine's call stack holds before it overflows.
StackLimit == 4

\* Most window messages that wait at the iframe's window at one time.
MaxWindowQueue == 3

\* ------------------------------------------------------------------ values
Num(n) == [tag |-> "num", v |-> n]

Str(t) == [tag |-> "str", s |-> t]

Null == [tag |-> "null"]

Undef == [tag |-> "undef"]

Fn(name) == [tag |-> "fn", f |-> name]

Proxy(id) == [tag |-> "proxy", methodId |-> id]

Obj(entries) == [tag |-> "obj", kids |-> entries]

EmptyObj == Obj(<< >>)

\* An array: Object.entries gives its elements under the keys "0", "1", ...
IndexKeys == <<"0", "1", "2">>

Arr(elements) ==
  [tag |-> "arr", kids |-> [i \in 1..Len(elements) |-> <<IndexKeys[i], elements[i]>>]]

\* typeof value
TypeOf(value) ==
  CASE value.tag = "num" -> "number"
    [] value.tag = "str" -> "string"
    [] value.tag = "undef" -> "undefined"
    [] value.tag \in {"fn", "proxy"} -> "function"
    [] OTHER -> "object"

\* Object.keys(o)
Keys(o) == [i \in 1..Len(o.kids) |-> o.kids[i][1]]

HasKey(o, key) == \E i \in 1..Len(o.kids) : o.kids[i][1] = key

\* o[key]; undefined when the key is absent
Get(o, key) ==
  IF HasKey(o, key)
  THEN o.kids[CHOOSE i \in 1..Len(o.kids) : o.kids[i][1] = key][2]
  ELSE Undef

\* o[key] = value: an existing key keeps its position, a new key is appended
Put(o, key, value) ==
  IF HasKey(o, key)
  THEN Obj([i \in 1..Len(o.kids) |->
             IF o.kids[i][1] = key THEN <<key, value>> ELSE o.kids[i]])
  ELSE Obj(Append(o.kids, <<key, value>>))


\* ------------------------------------------------- host: the capability splitter
\* A function case that pushes first and takes the length afterwards
ExtractFunctionPushesFirst(acc, key, value) ==
  [constants |-> acc.constants,
   methods   |-> Put(acc.methods, key, Num(Len(acc.table) + 1)),
   table     |-> Append(acc.table, value)]

\* case 'function': methods[key] = methodsById.length; methodsById.push(value)
ExtractFunction(acc, key, value) ==
  [constants |-> acc.constants,
   methods   |-> Put(acc.methods, key, Num(Len(acc.table))),
   table     |-> Append(acc.table, value)]

\* An object case that attaches child.methods whatever it holds
ExtractObjectAlwaysAttaches(acc, key, child) ==
  [constants |-> Put(acc.constants, key, child.constants),
   methods   |-> Put(acc.methods, key, child.methods),
   table     |-> child.table]

\* case 'object', value != null: constants[key] = child.constants, and
\* methods[key] = child.methods only when child.methods has a key
ExtractObject(acc, key, child) ==
  [constants |-> Put(acc.constants, key, child.constants),
   methods   |-> IF Len(Keys(child.methods)) > 0
                 THEN Put(acc.methods, key, child.methods)
                 ELSE acc.methods,
   table     |-> child.table]

\* value == null, and the default case: constants[key] = value
ExtractConstant(acc, key, value) ==
  [constants |-> Put(acc.constants, key, value),
   methods   |-> acc.methods,
   table     |-> acc.table]

RECURSIVE ExtractMethods(_, _)
RECURSIVE ExtractEntries(_, _, _)
\* The for loop of extractMethods over Object.entries(source), from entry i;
\* acc holds the constants and methods built so far and methodsById.
ExtractEntries(kids, i, acc) ==
  IF i > Len(kids) THEN acc
  ELSE LET key   == kids[i][1]
           value == kids[i][2]
           next  == CASE TypeOf(value) = "function" ->
                           ExtractFunction(acc, key, value)
                      [] TypeOf(value) = "object" /\ value.tag # "null" ->
                           ExtractObject(acc, key, ExtractMethods(value, acc.table))
                      [] OTHER -> ExtractConstant(acc, key, value)
       IN ExtractEntries(kids, i + 1, next)

\* extractMethods(source) with methodsById = table on entry; the result
\* carries methodsById as it is on return.
ExtractMethods(source, table) ==
  ExtractEntries(source.kids, 1,
                 [constants |-> EmptyObj, methods |-> EmptyObj, table |-> table])

\* ------------------------------------------------- guest: setGlobals
\* typeof value === 'object', value truthy:
\*   const child = {}; dest[key] = child; injectMethods(value, child)
\* child is what injectMethods has made of the fresh object.
InjectChild(dest, key, child) == Put(dest, key, child)

\* typeof value === 'number': dest[key] = (...params) => hostClient.call(...)
InjectProxy(dest, key, value) == Put(dest, key, Proxy(value))

RECURSIVE InjectMethods(_, _)
RECURSIVE InjectEntries(_, _, _)
InjectEntries(kids, i, dest) ==
  IF i > Len(kids) THEN dest
  ELSE LET key   == kids[i][1]
           value == kids[i][2]
           next  == CASE TypeOf(value) = "object" /\ value.tag = "obj" ->
                           InjectChild(dest, key, InjectMethods(value, EmptyObj))
                      [] TypeOf(value) = "number" -> InjectProxy(dest, key, value)
                      [] OTHER -> dest
       IN InjectEntries(kids, i + 1, next)

\* injectMethods(methods, dest): dest after the call
InjectMethods(methods, dest) == InjectEntries(methods.kids, 1, dest)

RECURSIVE BindEntries(_, _, _)
\* for (const [key, value] of Object.entries(constants)) globalThis[key] = value
BindEntries(kids, i, scope) ==
  IF i > Len(kids) THEN scope
  ELSE BindEntries(kids, i + 1, Put(scope, kids[i][1], kids[i][2]))

\* The setGlobals handler: the guest global scope after it ran
SetGlobals(scope, constants, methods) ==
  BindEntries(InjectMethods(methods, constants).kids, 1, scope)

\* ------------------------------------------------- the globals graphs and host functions
\* A value of the globals graph holds a function somewhere
RECURSIVE HasFn(_)
HasFn(value) ==
  \/ TypeOf(value) = "function"
  \/ /\ value.tag \in {"obj", "arr"}
     /\ \E i \in 1..Len(value.kids) : HasFn(value.kids[i][2])

\* Key paths of every node below the root of an object
RECURSIVE PathsOf(_)
PathsOf(o) ==
  UNION { LET key == o.kids[i][1]
              value == o.kids[i][2]
          IN {<<key>>} \cup (IF value.tag = "obj"
                             THEN {<<key>> \o p : p \in PathsOf(value)}
                             ELSE {})
          : i \in 1..Len(o.kids) }

\* The value found by following a key path from an object
RECURSIVE ValueAt(_, _)
ValueAt(o, path) ==
  IF path = << >> THEN o
  ELSE IF o.tag = "obj" THEN ValueAt(Get(o, Head(path)), Tail(path))
  ELSE Undef

\* Host functions the application exposes, as in the tests: add is
\* synchronous, fetchValue is async, fail throws, failLater is async and rejects.
HostFunctions == {"add", "fetchValue", "fail", "failLater"}

IsAsync(f) == f \in {"fetchValue", "failLater"}

Throws(f) == f \in {"fail", "failLater"}

Err(name) == [tag |-> "err", name |-> name]

\* What f(...args) yields in the host: its return value, or what it throws
ReturnOf(f, args) == [tag |-> "ret", f |-> f, args |-> args]

Invoke(f, args) ==
  IF Throws(f) THEN [ok |-> FALSE, val |-> Err("host error")]
  ELSE [ok |-> TRUE, val |-> ReturnOf(f, args)]

\* The globals graphs createSandbox is called with
GlobalsGraphs ==
  { EmptyObj,
    Obj(<< <<"myNumber", Num(42)>>, <<"myString", Str("hello")>>,
           <<"myNull", Null>> >>),
    Obj(<< <<"add", Fn("add")>>, <<"fetchValue", Fn("fetchValue")>> >>),
    Obj(<< <<"math", Obj(<< <<"add", Fn("add")>>,
                            <<"multiply", Fn("fetchValue")>> >>)>> >>),
    Obj(<< <<"config", Obj(<< <<"version", Num(1)>>,
                              <<"name", Str("test")>> >>)>> >>),
    Obj(<< <<"a", Obj(<< <<"b", Obj(<< <<"c",
              Obj(<< <<"getValue", Fn("add")>> >>)>> >>)>> >>)>> >>),
    Obj(<< <<"fail", Fn("fail")>>, <<"failLater", Fn("failLater")>> >>),
    Obj(<< <<"twenty", Num(20)>>, <<"add", Fn("add")>> >>),
    Obj(<< <<"api", Obj(<< <<"version", Num(1)>>,
                           <<"call", Fn("add")>> >>)>> >>),
    Obj(<< <<"app", Obj(<< <<"config", Obj(<< <<"version", Num(1)>> >>)>>,
                           <<"svc", Obj(<< <<"fetch", Fn("fetchValue")>> >>)>>,
                           <<"fail", Fn("fail")>> >>)>>,
           <<"empty", EmptyObj>> >>),
    Obj(<< <<"fruit", Arr(<<Str("apple"), Str("banana")>>)>>,
           <<"handlers", Arr(<<Fn("add")>>)>> >>) }

\* ------------------------------------------------- the code texts run() is given
\* Argument lists of a sandboxed call: none, and (1, 2, ...) of the longest length
ArgLists == { [i \in 1..n |-> Num(i)] : n \in {0, MaxArgs} }

\* methodId values of an onMethod request sandboxed code posts by itself:
\* the numbers next to the indices of a table of n entries, and a non-number
ForgedIds(n) == { Num(-1), Num(n), Str("0") }

Code(op, path, args, catch, methodId) ==
  [op |-> op, path |-> path, args |-> args, catch |-> catch, methodId |-> methodId]

\* 'return 1'
ReturnOne == Code("return", << >>, << >>, FALSE, Undef)

\* 'return {{'
Unbalanced == Code("syntax", << >>, << >>, FALSE, Undef)

\* 'await new Promise(() => {})'
NeverSettles == Code("hang", << >>, << >>, FALSE, Undef)

\* 'return a.b.c'
ReturnPath(path) == Code("read", path, << >>, FALSE, Undef)

\* 'return await a.b.f(1, 2)', or the same inside try { } catch { return "caught" }
CallPath(path, args, catch) == Code("call", path, args, catch, Undef)

\* code that sends the request of a proxy itself, with a methodId it chose
Forge(id) == Code("forge", << >>, << >>, FALSE, id)

\* 'return await Promise.all([first(1, 2), second()])': two proxies called one
\* after the other before either call has settled; keys[i] is called with
\* argLists[i]
CallBoth(keys, argLists) == Code("callAll", keys, argLists, FALSE, Undef)

\* 'globalThis.__counter = 1'
SetCounter == Code("set", <<"__counter">>, <<Num(1)>>, FALSE, Undef)

\* 'globalThis.__counter = 2; throw new Error("boom")'
SetThenThrow == Code("setThrow", <<"__counter">>, <<Num(2)>>, FALSE, Undef)

\* 'globalThis.__counter = 3; await Promise.reject(new Error("async boom"))'
SetThenReject == Code("setReject", <<"__counter">>, <<Num(3)>>, FALSE, Undef)

\* 'return globalThis.__counter'
ReturnCounter == Code("readGlobal", <<"__counter">>, << >>, FALSE, Undef)

\* The top-level keys of a graph bound to async functions that return
AsyncKeys(graph) ==
  {graph.kids[i][1] : i \in {j \in 1..Len(graph.kids) :
                               /\ TypeOf(graph.kids[j][2]) = "function"
                               /\ IsAsync(graph.kids[j][2].f)
                               /\ ~Throws(graph.kids[j][2].f)}}

\* Code texts that have two calls of async host functions outstanding at once:
\* the first key is called with the longest argument list, the second with none
ConcurrentCalls(graph) ==
  { CallBoth(keys, <<[i \in 1..MaxArgs |-> Num(i)], << >> >>) :
      keys \in {pair \in AsyncKeys(graph) \X AsyncKeys(graph) : pair[1] # pair[2]} }

Programs(graph) ==
  {ReturnOne, Unbalanced, NeverSettles}
  \cup ConcurrentCalls(graph)
  \cup {SetCounter, SetThenThrow, SetThenReject, ReturnCounter}
  \cup { ReturnPath(p) : p \in {q \in PathsOf(graph) : ~HasFn(ValueAt(graph, q))} }
  \cup { CallPath(p, a, FALSE) :
           p \in {q \in PathsOf(graph) : TypeOf(ValueAt(graph, q)) = "function"},
           a \in ArgLists }
  \cup { CallPath(p, << >>, TRUE) :
           p \in {q \in PathsOf(graph) : TypeOf(ValueAt(graph, q)) = "function"} }
  \cup { Forge(id) : id \in ForgedIds(Len(ExtractMethods(graph, << >>).table)) }

\* ------------------------------------------------- guest: evaluating a code text
\* Evaluate the member expression a.b.c in the guest global scope
RECURSIVE Member(_, _)
Member(value, path) ==
  IF path = << >> THEN [ok |-> TRUE, val |-> value]
  ELSE IF value.tag \in {"undef", "null"} THEN [ok |-> FALSE, val |-> Err("TypeError")]
  ELSE IF value.tag = "obj" THEN Member(Get(value, Head(path)), Tail(path))
  ELSE Member(Undef, Tail(path))

\* An identifier lookup that yields undefined for a name that is not bound
LookupLenient(scope, path) ==
  IF ~HasKey(scope, Head(path)) THEN [ok |-> TRUE, val |-> Undef]
  ELSE Member(Get(scope, Head(path)), Tail(path))

Lookup(scope, path) ==
  IF ~HasKey(scope, Head(path)) THEN [ok |-> FALSE, val |-> Err("ReferenceError")]
  ELSE Member(Get(scope, Head(path)), Tail(path))

\* A run handler that executes fn() without returning its value
SettledDropsValue(ok, val) ==
  [kind |-> "done", ok |-> ok, val |-> Undef, methodId |-> Undef, params |-> << >>]

\* run({ code }): new AsyncFunction(code) and fn() up to its first suspension.
\* The outcome is a settled result (done), a call of a proxy the code now
\* awaits (call), or a suspension nothing resumes (hang).
Settled(ok, val) ==
  [kind |-> "done", ok |-> ok, val |-> val, methodId |-> Undef, params |-> << >>]

Calling(methodId, params) ==
  [kind |-> "call", ok |-> TRUE, val |-> Undef, methodId |-> methodId, params |-> params]

\* The code has called several proxies and awaits all of them: methodId and
\* params hold one entry for each call, in the order the calls were made
CallingAll(methodIds, paramLists) ==
  [kind |-> "callAll", ok |-> TRUE, val |-> Undef,
   methodId |-> methodIds, params |-> paramLists]

Suspended ==
  [kind |-> "hang", ok |-> TRUE, val |-> Undef, methodId |-> Undef, params |-> << >>]

\* A handler that catches the SyntaxError and returns undefined
CompileFailureResolves == Settled(TRUE, Undef)

\* new AsyncFunction(code) of a text that does not parse throws in the handler
CompileFailure == Settled(FALSE, Err("SyntaxError"))

\* A proxy that forgets its arguments: hostClient.call('onMethod', { methodId: value })
ProxyCallNoParams(methodId, params) == Calling(methodId, << >>)

\* The closure injectMethods installs for a token, called with params:
\* hostClient.call('onMethod', { methodId: value, params })
ProxyCall(methodId, params) == Calling(methodId, params)

RunCode(scope, code) ==
  CASE code.op = "syntax" -> CompileFailure
    [] code.op = "return" -> Settled(TRUE, Num(1))
    [] code.op = "hang" -> Suspended
    [] code.op = "read" ->
         LET r == Lookup(scope, code.path) IN Settled(r.ok, r.val)
    [] code.op = "call" ->
         LET r == Lookup(scope, code.path)
         IN IF ~r.ok
            THEN (IF code.catch THEN Settled(TRUE, Str("caught")) ELSE Settled(FALSE, r.val))
            ELSE IF r.val.tag = "proxy" THEN ProxyCall(r.val.methodId, code.args)
            ELSE IF code.catch THEN Settled(TRUE, Str("caught"))
            ELSE Settled(FALSE, Err("TypeError"))
    [] code.op = "forge" -> Calling(code.methodId, code.args)
    [] code.op = "callAll" ->
         LET found == [i \in 1..Len(code.path) |-> Lookup(scope, <<code.path[i]>>)]
         IN IF \A i \in 1..Len(found) : found[i].ok /\ found[i].val.tag = "proxy"
            THEN CallingAll([i \in 1..Len(found) |-> found[i].val.methodId], code.args)
            ELSE Settled(FALSE, Err("TypeError"))
    [] code.op = "set" -> Settled(TRUE, Undef)
    [] code.op = "setThrow" -> Settled(FALSE, Err("boom"))
    [] code.op = "setReject" -> Settled(FALSE, Err("async boom"))
    [] code.op = "readGlobal" -> Settled(TRUE, Get(scope, code.path[1]))

\* A run whose failure undoes the assignments it made
RunScopeRollsBack(scope, code) ==
  IF code.op = "set" THEN Put(scope, code.path[1], code.args[1]) ELSE scope

\* A run that executes in a scope created for it
RunScopeRecreated(scope, code) ==
  IF code.op \in {"set", "setThrow", "setReject"}
  THEN Put(EmptyObj, code.path[1], code.args[1])
  ELSE EmptyObj

\* The guest global scope after fn() has run the code: an assignment to
\* globalThis stays, whatever the code does after it
RunScope(scope, code) ==
  IF code.op \in {"set", "setThrow", "setReject"}
  THEN Put(scope, code.path[1], code.args[1])
  ELSE scope

\* ------------------------------------------------- host: dispatch and disposal
\* onMethod reading methodsById[methodId + 1]
OnMethodNextEntry(table, methodId, params) ==
  IF TypeOf(methodId) = "number"
  THEN IF methodId.v + 2 \in DOMAIN table
       THEN [invoked |-> TRUE, f |-> table[methodId.v + 2].f, args |-> params,
             ok |-> Invoke(table[methodId.v + 2].f, params).ok,
             val |-> Invoke(table[methodId.v + 2].f, params).val]
       ELSE [invoked |-> FALSE, f |-> "", args |-> params,
             ok |-> FALSE, val |-> Err("TypeError")]
  ELSE [invoked |-> FALSE, f |-> "", args |-> params, ok |-> TRUE, val |-> Undef]

\* onMethod that catches what the function throws and returns undefined
OnMethodSwallows(table, methodId, params) ==
  IF TypeOf(methodId) = "number"
  THEN IF methodId.v \in 0..(Len(table) - 1)
       THEN [invoked |-> TRUE, f |-> table[methodId.v + 1].f, args |-> params,
             ok |-> TRUE,
             val |-> IF Invoke(table[methodId.v + 1].f, params).ok
                     THEN Invoke(table[methodId.v + 1].f, params).val
                     ELSE Undef]
       ELSE [invoked |-> FALSE, f |-> "", args |-> params,
             ok |-> FALSE, val |-> Err("TypeError")]
  ELSE [invoked |-> FALSE, f |-> "", args |-> params, ok |-> TRUE, val |-> Undef]

\* A handler without the typeof test: methodsById[methodId] converts a
\* methodId that is no number to a property key, '0' naming the first entry
OnMethodNoTypeCheck(table, methodId, params) ==
  LET index == CASE methodId.tag = "num" -> methodId.v
                 [] methodId = Str("0") -> 0
                 [] methodId = Arr(<<Num(0)>>) -> 0
                 [] OTHER -> -1
  IN IF index \in 0..(Len(table) - 1)
     THEN [invoked |-> TRUE, f |-> table[index + 1].f, args |-> params,
           ok |-> Invoke(table[index + 1].f, params).ok,
           val |-> Invoke(table[index + 1].f, params).val]
     ELSE [invoked |-> FALSE, f |-> "", args |-> params,
           ok |-> FALSE, val |-> Err("TypeError")]

\* The onMethod handler: which function it invokes, if any, and the outcome
\* the server returns.  methodsById[methodId] of a number that is no index
\* is undefined, and calling undefined throws a TypeError.
OnMethod(table, methodId, params) ==
  IF TypeOf(methodId) = "number"
  THEN IF methodId.v \in 0..(Len(table) - 1)
       THEN [invoked |-> TRUE, f |-> table[methodId.v + 1].f, args |-> params,
             ok |-> Invoke(table[methodId.v + 1].f, params).ok,
             val |-> Invoke(table[methodId.v + 1].f, params).val]
       ELSE [invoked |-> FALSE, f |-> "", args |-> params,
             ok |-> FALSE, val |-> Err("TypeError")]
  ELSE [invoked |-> FALSE, f |-> "", args |-> params, ok |-> TRUE, val |-> Undef]

\* dispose removing the iframe with iframe.parentNode.removeChild(iframe),
\* which throws once the iframe is detached
DisposeEffectRemoveChild(port, attached) ==
  [port |-> "closed", attached |-> FALSE, threw |-> ~attached]

\* dispose that removes the iframe and leaves the port open
DisposeEffectKeepsPort(port, attached) ==
  [port |-> port, attached |-> FALSE, threw |-> FALSE]

\* dispose: port.close(); iframe.remove().  Both are no-ops on a closed port
\* and a detached element, and neither throws.
DisposeEffect(port, attached) ==
  [port |-> "closed", attached |-> FALSE, threw |-> FALSE]

\* ------------------------------------------------- messages
Req(id, method, body) == [kind |-> "req", id |-> id, method |-> method, body |-> body]

Res(id, ok, val) == [kind |-> "res", id |-> id, ok |-> ok, val |-> val]

InitMessage == [type |-> "slopjail:init"]

\* The request id of the setGlobals call; run k of the session has id k + 1
SetGlobalsId == 1

\* ------------------------------------------------- state
VARIABLES
  globals,        \* opts.globals of the createSandbox call
  hpc,            \* createSandbox: start, loading, awaitSetGlobals, ready, failed
  methodsById,    \* the capability table
  constants,      \* constants tree of extractMethods(opts.globals)
  methods,        \* methods tree of extractMethods(opts.globals)
  port2,          \* channel.port2: new, open, closed
  iframeAttached, \* the iframe is a child of document.body
  runs,           \* the promises run() returned, in call order
  hostLog,        \* invocations of host functions, in order
  hostAsync,      \* async host functions that have not completed yet
  hostThrown,     \* an exception escaped into the application
  disposeCalls,   \* times the application called dispose: 0, 1, or 2 for twice and more
  winQ,           \* messages posted to the iframe window
  h2r,            \* messages port2 -> port1
  r2w,            \* messages relay -> worker
  w2r,            \* messages worker -> relay
  r2h,            \* messages port1 -> port2
  relay,          \* relay script: none, listening, bridging
  workers,        \* workers the relay has created
  workerStarted,  \* the worker script has run
  guestScope,     \* bindings installed on the guest globalThis
  guestTasks,     \* runs suspended in the guest
  guestNextId     \* next request id of hostClient

VARIABLES
  policyPc,       \* building the iframe document: input, assembled, embedded, parsed
  policyOpt,      \* opts.contentSecurityPolicy
  fullContentSecurityPolicy,  \* the assembled policy text
  srcdoc,         \* iframe.srcdoc
  parsedDoc       \* what the browser reads from srcdoc

policyVars == <<policyPc, policyOpt, fullContentSecurityPolicy, srcdoc, parsedDoc>>

VARIABLES
  realmPc,        \* the worker script: loaded, serving, installed, rejected
  realm,          \* the guest global and its prototypes, own properties of each
  realmGlobals,   \* opts.globals of the session the worker belongs to
  realmLast       \* the last expression sandboxed code evaluated, and its outcome

realmVars == <<realmPc, realm, realmGlobals, realmLast>>

VARIABLES
  pair            \* two sessions side by side: for each, its host and guest state

pairVars == <<pair>>

VARIABLES
  splitPc,        \* the host side alone: input, split, served
  splitSource,    \* opts.globals handed to extractMethods
  splitOut,       \* constants, methods and methodsById after extractMethods
  splitCall       \* the last onMethod request served and its outcome

splitVars == <<splitPc, splitSource, splitOut, splitCall>>

VARIABLES
  walkPc,         \* extractMethods call by call: walking, done, rejected
  walkHeap,       \* opts.globals as objects that refer to one another
  walkStack,      \* the extractMethods calls in progress, innermost last
  walkTable       \* methodsById

walkVars == <<walkPc, walkHeap, walkStack, walkTable>>

\* Variables of the parts that are modelled apart from the session
auxVars == <<policyVars, realmVars, pairVars, splitVars, walkVars>>

hostVars == <<globals, hpc, methodsById, constants, methods, port2,
              iframeAttached, runs, hostLog, hostAsync, hostThrown>>

channelVars == <<winQ, h2r, r2w, w2r, r2h>>

guestVars == <<relay, workers, workerStarted, guestScope, guestTasks, guestNextId>>

\* Everything but the count of dispose calls
sessionVars == <<hostVars, channelVars, guestVars>>

vars == <<hostVars, disposeCalls, channelVars, guestVars>>

\* The state createSandbox({ globals: graph }) starts from
SessionStart(graph) ==
  /\ globals = graph
  /\ hpc = "start"
  /\ methodsById = << >>
  /\ constants = EmptyObj
  /\ methods = EmptyObj
  /\ port2 = "new"
  /\ iframeAttached = FALSE
  /\ runs = << >>
  /\ hostLog = << >>
  /\ hostAsync = {}
  /\ hostThrown = FALSE
  /\ disposeCalls = 0
  /\ winQ = << >>
  /\ h2r = << >>
  /\ r2w = << >>
  /\ w2r = << >>
  /\ r2h = << >>
  /\ relay = "none"
  /\ workers = 0
  /\ workerStarted = FALSE
  /\ guestScope = EmptyObj
  /\ guestTasks = {}
  /\ guestNextId = 1

\* No iframe document is being built
PolicyIdle ==
  /\ policyPc = "idle"
  /\ policyOpt = [given |-> FALSE]
  /\ fullContentSecurityPolicy = << >>
  /\ srcdoc = << >>
  /\ parsedDoc = [content |-> << >>, rest |-> << >>]

\* What sandboxed code evaluated: nothing yet
NoEval == [expr |-> "none", id |-> "", level |-> 0, ok |-> TRUE, val |-> Undef]

\* No worker global is being looked at
RealmIdle ==
  /\ realmPc = "idle"
  /\ realm = << >>
  /\ realmGlobals = EmptyObj
  /\ realmLast = NoEval

\* No second session exists
PairIdle == pair = << >>

\* No onMethod request has been served
NoCall == [methodId |-> Undef, params |-> << >>, invoked |-> FALSE, f |-> "",
           ok |-> TRUE, val |-> Undef]

\* No graph is being split apart from a session
SplitIdle ==
  /\ splitPc = "idle"
  /\ splitSource = EmptyObj
  /\ splitOut = [constants |-> EmptyObj, methods |-> EmptyObj, table |-> << >>]
  /\ splitCall = NoCall

\* No graph of objects is being walked
WalkIdle ==
  /\ walkPc = "idle"
  /\ walkHeap = << >>
  /\ walkStack = << >>
  /\ walkTable = << >>

Init ==
  /\ \E graph \in GlobalsGraphs : SessionStart(graph)
  /\ PolicyIdle
  /\ RealmIdle
  /\ PairIdle
  /\ SplitIdle
  /\ WalkIdle

\* port.postMessage(message): a closed port drops the message
\* A port that delivers what is posted on it twice
PortPostTwice(queue, message) ==
  IF port2 = "open" THEN Append(Append(queue, message), message) ELSE queue

PortPost(queue, message) ==
  IF port2 = "open" THEN Append(queue, message) ELSE queue

\* ------------------------------------------------- host actions
\* createSandbox up to its first await: extractMethods, new MessageChannel,
\* the iframe element appended to document.body
CreateSandbox ==
  /\ hpc = "start"
  /\ LET split == ExtractMethods(globals, << >>)
     IN /\ methodsById' = split.table
        /\ constants' = split.constants
        /\ methods' = split.methods
  /\ iframeAttached' = TRUE
  /\ hpc' = "loading"
  /\ UNCHANGED <<globals, port2, runs, hostLog, hostAsync, hostThrown,
                 disposeCalls, channelVars, guestVars>>
  /\ UNCHANGED auxVars

\* The iframe's load event: the relay script has run, the listener posts
\* slopjail:init with port1 and resolves; createSandbox goes on to start
\* port2, serve onMethod and call setGlobals
IframeLoad ==
  /\ hpc = "loading"
  /\ relay' = "listening"
  /\ winQ' = Append(winQ, InitMessage)
  /\ port2' = "open"
  /\ h2r' = Append(h2r, Req(SetGlobalsId, "setGlobals",
                            [constants |-> constants, methods |-> methods]))
  /\ hpc' = "awaitSetGlobals"
  /\ UNCHANGED <<globals, methodsById, constants, methods, iframeAttached, runs,
                 hostLog, hostAsync, hostThrown, disposeCalls, r2w, w2r, r2h,
                 workers, workerStarted, guestScope, guestTasks, guestNextId>>
  /\ UNCHANGED auxVars

\* An error listener that resolves the promise
IframeErrorResolves == "awaitSetGlobals"

\* iframe.addEventListener('error', reject): where createSandbox is after
\* the error event
IframeErrorOutcome == "failed"

\* The iframe's error event: the promise rejects and createSandbox with it
IframeError ==
  /\ hpc = "loading"
  /\ hpc' = IframeErrorOutcome
  /\ UNCHANGED <<globals, methodsById, constants, methods, port2, iframeAttached,
                 runs, hostLog, hostAsync, hostThrown, disposeCalls,
                 channelVars, guestVars>>
  /\ UNCHANGED auxVars

\* port2 delivers an onMethod request to the server
HostOnMethod ==
  /\ port2 = "open"
  /\ r2h # << >>
  /\ Head(r2h).kind = "req"
  /\ LET m == Head(r2h)
         r == OnMethod(methodsById, m.body.methodId, m.body.params)
     IN /\ hostLog' = IF r.invoked
                      THEN Append(hostLog, [methodId |-> m.body.methodId,
                                            f |-> r.f, args |-> r.args])
                      ELSE hostLog
        /\ IF r.invoked /\ IsAsync(r.f)
           THEN /\ hostAsync' = hostAsync \cup {[id |-> m.id, f |-> r.f, args |-> r.args]}
                /\ UNCHANGED h2r
           ELSE /\ h2r' = PortPost(h2r, Res(m.id, r.ok, r.val))
                /\ UNCHANGED hostAsync
  /\ r2h' = Tail(r2h)
  /\ UNCHANGED <<globals, hpc, methodsById, constants, methods, port2,
                 iframeAttached, runs, hostThrown, disposeCalls, winQ, r2w, w2r,
                 guestVars>>
  /\ UNCHANGED auxVars

\* An async host function completes; the server posts its outcome
HostFnComplete ==
  \E c \in hostAsync :
    /\ hostAsync' = hostAsync \ {c}
    /\ h2r' = PortPost(h2r, Res(c.id, Invoke(c.f, c.args).ok, Invoke(c.f, c.args).val))
    /\ UNCHANGED <<globals, hpc, methodsById, constants, methods, port2,
                   iframeAttached, runs, hostLog, hostThrown, disposeCalls,
                   winQ, r2w, w2r, r2h, guestVars>>
  /\ UNCHANGED auxVars

\* port2 delivers a response to guestClient: the setGlobals call, after
\* which createSandbox returns the handle, or a run call
HostSettle ==
  /\ port2 = "open"
  /\ r2h # << >>
  /\ Head(r2h).kind = "res"
  /\ LET m == Head(r2h)
     IN IF m.id = SetGlobalsId
        THEN /\ hpc' = IF hpc = "awaitSetGlobals"
                       THEN (IF m.ok THEN "ready" ELSE "failed")
                       ELSE hpc
             /\ UNCHANGED runs
        ELSE /\ runs' = IF m.id - 1 \in DOMAIN runs /\ runs[m.id - 1].state = "pending"
                        THEN [runs EXCEPT ![m.id - 1].state =
                                            IF m.ok THEN "resolved" ELSE "rejected",
                                          ![m.id - 1].val = m.val]
                        ELSE runs
             /\ UNCHANGED hpc
  /\ r2h' = Tail(r2h)
  /\ UNCHANGED <<globals, methodsById, constants, methods, port2, iframeAttached,
                 hostLog, hostAsync, hostThrown, disposeCalls, winQ, h2r, r2w, w2r,
                 guestVars>>
  /\ UNCHANGED auxVars

\* A createSandbox that returns the handle without awaiting setGlobals
HandleAvailableBeforeAck(pc) == pc \in {"awaitSetGlobals", "ready"}

\* await guestClient.call('setGlobals', ..) comes before the handle is
\* returned: the application holds run and dispose once createSandbox is here
HandleAvailable(pc) == pc = "ready"

PendingRuns == {k \in DOMAIN runs : runs[k].state = "pending"}

\* sandbox.run(code): guestClient.call('run', { code }).  The application
\* uses the API as request and response: it calls run again only when the
\* run before has settled.
Run ==
  /\ HandleAvailable(hpc)
  /\ Len(runs) < MaxRuns
  /\ PendingRuns = {}
  /\ \E code \in Programs(globals) :
       /\ runs' = Append(runs, [code |-> code, state |-> "pending", val |-> Undef,
                                afterDispose |-> port2 = "closed"])
       /\ h2r' = PortPost(h2r, Req(Len(runs) + 2, "run", [code |-> code]))
  /\ UNCHANGED <<globals, hpc, methodsById, constants, methods, port2,
                 iframeAttached, hostLog, hostAsync, hostThrown, disposeCalls,
                 winQ, r2w, w2r, r2h, guestVars>>
  /\ UNCHANGED auxVars

\* sandbox.dispose(), also reached as sandbox[Symbol.dispose]()
Dispose ==
  /\ HandleAvailable(hpc)
  /\ disposeCalls' = IF disposeCalls = 0 THEN 1 ELSE 2
  /\ LET e == DisposeEffect(port2, iframeAttached)
     IN /\ port2' = e.port
        /\ iframeAttached' = e.attached
        /\ hostThrown' = (hostThrown \/ e.threw)
  /\ UNCHANGED <<globals, hpc, methodsById, constants, methods, runs, hostLog,
                 hostAsync, channelVars, guestVars>>
  /\ UNCHANGED auxVars

\* ------------------------------------------------- relay actions
\* A relay that leaves its message listener in place
AfterInitKeepsListening == "listening"

\* self.removeEventListener('message', onMessage), the worker and the bridge:
\* where the relay is once it has handled slopjail:init
AfterInit == "bridging"

\* onMessage of the relay script: on slopjail:init it removes itself,
\* creates the worker and connects port1 and the worker
RelayInit ==
  /\ relay = "listening"
  /\ winQ # << >>
  /\ IF Head(winQ).type = "slopjail:init"
     THEN /\ relay' = AfterInit
          /\ workers' = workers + 1
     ELSE UNCHANGED <<relay, workers>>
  /\ winQ' = Tail(winQ)
  /\ UNCHANGED <<hostVars, disposeCalls, h2r, r2w, w2r, r2h, workerStarted,
                 guestScope, guestTasks, guestNextId>>
  /\ UNCHANGED auxVars

\* A relay that passes on the message posted last
RelayedNewest(queue) == queue[Len(queue)]

\* event.data of the message event a port or worker delivers next: the
\* message that has waited longest, as it was posted
Relayed(queue) == Head(queue)

\* port.onmessage = (event) => worker.postMessage(event.data)
RelayToWorker ==
  /\ relay = "bridging"
  /\ h2r # << >>
  /\ r2w' = Append(r2w, Relayed(h2r))
  /\ h2r' = Tail(h2r)
  /\ UNCHANGED <<hostVars, disposeCalls, winQ, w2r, r2h, guestVars>>
  /\ UNCHANGED auxVars

\* worker.onmessage = (event) => port.postMessage(event.data)
RelayToPort ==
  /\ relay = "bridging"
  /\ w2r # << >>
  /\ r2h' = Append(r2h, Relayed(w2r))
  /\ w2r' = Tail(w2r)
  /\ UNCHANGED <<hostVars, disposeCalls, winQ, h2r, r2w, guestVars>>
  /\ UNCHANGED auxVars

\* ------------------------------------------------- guest actions
\* The worker script runs: hostClient and the server are created
WorkerStart ==
  /\ workers > 0
  /\ ~workerStarted
  /\ workerStarted' = TRUE
  /\ UNCHANGED <<hostVars, disposeCalls, channelVars, relay, workers, guestScope,
                 guestTasks, guestNextId>>
  /\ UNCHANGED auxVars

\* The guest server handles setGlobals
GuestSetGlobals ==
  /\ workerStarted
  /\ r2w # << >>
  /\ Head(r2w).kind = "req"
  /\ Head(r2w).method = "setGlobals"
  /\ LET m == Head(r2w)
     IN /\ guestScope' = SetGlobals(guestScope, m.body.constants, m.body.methods)
        /\ w2r' = Append(w2r, Res(m.id, TRUE, Undef))
  /\ r2w' = Tail(r2w)
  /\ UNCHANGED <<hostVars, disposeCalls, winQ, h2r, r2h, relay, workers,
                 workerStarted, guestTasks, guestNextId>>
  /\ UNCHANGED auxVars

\* The guest server handles run: the code runs to its end or to its first
\* suspension
GuestRun ==
  /\ workerStarted
  /\ r2w # << >>
  /\ Head(r2w).kind = "req"
  /\ Head(r2w).method = "run"
  /\ LET m == Head(r2w)
         o == RunCode(guestScope, m.body.code)
     IN /\ guestScope' = RunScope(guestScope, m.body.code)
        /\ CASE o.kind = "done" ->
                  /\ w2r' = Append(w2r, Res(m.id, o.ok, o.val))
                  /\ UNCHANGED <<guestTasks, guestNextId>>
             [] o.kind = "call" ->
                  /\ w2r' = Append(w2r, Req(guestNextId, "onMethod",
                                            [methodId |-> o.methodId, params |-> o.params]))
                  /\ guestTasks' = guestTasks \cup
                                    {[run |-> m.id, call |-> guestNextId,
                                      catch |-> m.body.code.catch,
                                      slot |-> 1, got |-> {}]}
                  /\ guestNextId' = guestNextId + 1
             [] o.kind = "callAll" ->
                  /\ w2r' = w2r \o [i \in 1..Len(o.methodId) |->
                                      Req(guestNextId + i - 1, "onMethod",
                                          [methodId |-> o.methodId[i],
                                           params |-> o.params[i]])]
                  /\ guestTasks' = guestTasks \cup
                                    {[run |-> m.id, call |-> guestNextId + i - 1,
                                      catch |-> FALSE, slot |-> i, got |-> {}]
                                     : i \in 1..Len(o.methodId)}
                  /\ guestNextId' = guestNextId + Len(o.methodId)
             [] o.kind = "hang" ->
                  /\ guestTasks' = guestTasks \cup
                                    {[run |-> m.id, call |-> 0, catch |-> FALSE,
                                      slot |-> 1, got |-> {}]}
                  /\ UNCHANGED <<w2r, guestNextId>>
  /\ r2w' = Tail(r2w)
  /\ UNCHANGED <<hostVars, disposeCalls, winQ, h2r, r2h, relay, workers,
                 workerStarted>>
  /\ UNCHANGED auxVars

\* A client that hands a response to the call that has waited longest,
\* whatever id the response carries
AwaitingOldest(tasks, id) ==
  {t \in tasks : t.call # 0 /\ \A u \in tasks : u.call # 0 => t.call <= u.call}

\* The call a response settles: the one that was issued with its id
Awaiting(tasks, id) == {t \in tasks : t.call = id}

\* The value of Promise.all: the results in the order of the calls
Joined(got) ==
  Arr([i \in 1..Cardinality(got) |-> (CHOOSE g \in got : g[1] = i)[2]])

\* hostClient receives the response of an onMethod call: the awaiting code
\* resumes.  A run that awaits other calls as well goes on waiting and keeps
\* the result; otherwise the run the call belongs to settles, with the
\* call's outcome or with the results of all its calls.  A rejected call
\* rejects the run at once, and what its other calls yield is ignored.
GuestResume ==
  /\ workerStarted
  /\ r2w # << >>
  /\ Head(r2w).kind = "res"
  /\ LET m == Head(r2w)
         waiting == Awaiting(guestTasks, m.id)
     IN IF waiting = {}
        THEN UNCHANGED <<guestTasks, w2r>>
        ELSE LET t == CHOOSE t \in waiting : TRUE
                 others == {u \in guestTasks \ waiting : u.run = t.run}
                 got == t.got \cup {<<t.slot, m.val>>}
             IN IF m.ok /\ others # {}
                THEN /\ guestTasks' = (guestTasks \ (waiting \cup others))
                                        \cup {[u EXCEPT !.got = got] : u \in others}
                     /\ UNCHANGED w2r
                ELSE /\ guestTasks' = guestTasks \ (waiting \cup others)
                     /\ w2r' = Append(w2r,
                                 IF m.ok
                                 THEN Res(t.run, TRUE,
                                          IF t.got = {} THEN m.val ELSE Joined(got))
                                 ELSE IF t.catch THEN Res(t.run, TRUE, Str("caught"))
                                 ELSE Res(t.run, FALSE, m.val))
  /\ r2w' = Tail(r2w)
  /\ UNCHANGED <<hostVars, disposeCalls, winQ, h2r, r2h, relay, workers,
                 workerStarted, guestScope, guestNextId>>
  /\ UNCHANGED auxVars

\* ------------------------------------------------- specification
Next ==
  \/ CreateSandbox
  \/ IframeLoad
  \/ IframeError
  \/ HostOnMethod
  \/ HostFnComplete
  \/ HostSettle
  \/ Run
  \/ Dispose
  \/ RelayInit
  \/ RelayToWorker
  \/ RelayToPort
  \/ WorkerStart
  \/ GuestSetGlobals
  \/ GuestRun
  \/ GuestResume

Spec == Init /\ [][Next]_vars

\* A window message that is not the init message
OtherMessage == [type |-> "other"]

\* A script of the embedding page posts a message to the iframe's window:
\* one of another type, or one more slopjail:init
WindowMessage ==
  /\ iframeAttached
  /\ Len(winQ) < MaxWindowQueue
  /\ \E message \in {OtherMessage, InitMessage} : winQ' = Append(winQ, message)
  /\ UNCHANGED <<hostVars, disposeCalls, h2r, r2w, w2r, r2h, guestVars>>
  /\ UNCHANGED auxVars

\* A message event at the iframe's window while onMessage is not registered
\* (the relay script has not run yet, or has removed the listener): no
\* listener is called
RelayIgnore ==
  /\ relay # "listening"
  /\ winQ # << >>
  /\ winQ' = Tail(winQ)
  /\ UNCHANGED <<hostVars, disposeCalls, h2r, r2w, w2r, r2h, guestVars>>
  /\ UNCHANGED auxVars

\* createSandbox of a session without globals, up to the handle, while
\* scripts of the page post messages to the iframe's window
RelayNext ==
  \/ CreateSandbox
  \/ IframeLoad
  \/ WindowMessage
  \/ RelayInit
  \/ RelayIgnore
  \/ WorkerStart
  \/ RelayToWorker
  \/ GuestSetGlobals
  \/ RelayToPort
  \/ HostSettle

RelayStart ==
  /\ SessionStart(EmptyObj)
  /\ PolicyIdle
  /\ RealmIdle
  /\ PairIdle
  /\ SplitIdle
  /\ WalkIdle

RelaySpec == RelayStart /\ [][RelayNext]_vars

\* A session that exposes two async host functions, whose code can have both
\* called before either has completed
ConcGlobals == Obj(<< <<"first", Fn("fetchValue")>>, <<"second", Fn("fetchValue")>> >>)

ConcInit ==
  /\ SessionStart(ConcGlobals)
  /\ PolicyIdle
  /\ RealmIdle
  /\ PairIdle
  /\ SplitIdle
  /\ WalkIdle

ConcSpec == ConcInit /\ [][Next]_vars

\* ------------------------------------------------- policy assembly and markup escaping
\* A text is a sequence of symbols. Each of & " ' < > is a symbol of its own,
\* and so is every character of caller-written text and of an entity; only
\* words of the program's fixed text (default-src, none, ...) are one symbol.
Amp == <<"&", "a", "m", "p", ";">>

Quot == <<"&", "q", "u", "o", "t", ";">>

Apos == <<"&", "#", "3", "9", ";">>

Lt == <<"&", "l", "t", ";">>

Gt == <<"&", "g", "t", ";">>

RECURSIVE ReplaceAll(_, _, _)
\* str.replaceAll(ch, replacement)
ReplaceAll(str, ch, replacement) ==
  IF str = << >> THEN << >>
  ELSE (IF Head(str) = ch THEN replacement ELSE <<Head(str)>>)
       \o ReplaceAll(Tail(str), ch, replacement)

\* An escaper without the & pass
EscapeHtmlSkipsAmp(str) ==
  ReplaceAll(ReplaceAll(ReplaceAll(ReplaceAll(str, "\"", Quot), "'", Apos), "<", Lt), ">", Gt)

\* An escaper that leaves the double quote alone
EscapeHtmlKeepsQuote(str) ==
  ReplaceAll(ReplaceAll(ReplaceAll(ReplaceAll(str, "&", Amp), "'", Apos), "<", Lt), ">", Gt)

\* An escaper whose & pass comes last
EscapeHtmlAmpLast(str) ==
  ReplaceAll(
    ReplaceAll(
      ReplaceAll(
        ReplaceAll(
          ReplaceAll(str, "\"", Quot),
          "'", Apos),
        "<", Lt),
      ">", Gt),
    "&", Amp)

\* escapeHtml(str): five replaceAll passes, & first
EscapeHtml(str) ==
  ReplaceAll(
    ReplaceAll(
      ReplaceAll(
        ReplaceAll(
          ReplaceAll(str, "&", Amp),
          "\"", Quot),
        "'", Apos),
      "<", Lt),
    ">", Gt)

\* default-src 'none'; script-src 'unsafe-inline' 'unsafe-eval'; worker-src data:;
\* and the space the template puts before the caller's text
Baseline ==
  <<"default-src", " ", "'", "none", "'", ";", " ",
    "script-src", " ", "'", "unsafe-inline", "'", " ", "'", "unsafe-eval", "'", ";", " ",
    "worker-src", " ", "data:", ";", " ">>

\* opts.contentSecurityPolicy: absent, or a text
NoPolicy == [given |-> FALSE]

Policy(text) == [given |-> TRUE, text |-> text]

\* opts?.contentSecurityPolicy ?? ''
PolicyText(opt) == IF opt.given THEN opt.text ELSE << >>

\* A template that puts the caller's text first
FullPolicyCallerFirst(opt) == PolicyText(opt) \o Baseline

\* The template literal of fullContentSecurityPolicy
FullPolicy(opt) == Baseline \o PolicyText(opt)

\* <head><meta http-equiv="Content-Security-Policy" content="
DocHead == <<"<head><meta http-equiv=\"Content-Security-Policy\" content=", "\"">>

\* "></head><body><script>${safeIframeSource}</script></body>
DocTail == <<"\"", ">", "</head><body><script>", "safeIframeSource", "</script></body>">>

\* The template literal of iframe.srcdoc, with the escaper it applies
SrcdocWith(escaped) == DocHead \o escaped \o DocTail

\* Entities and the characters they stand for
Entities ==
  { [text |-> Amp, ch |-> "&"], [text |-> Quot, ch |-> "\""],
    [text |-> Apos, ch |-> "'"], [text |-> Lt, ch |-> "<"], [text |-> Gt, ch |-> ">"] }

StartsWith(str, prefix) ==
  /\ Len(str) >= Len(prefix)
  /\ SubSeq(str, 1, Len(prefix)) = prefix

RECURSIVE DecodeEntities(_)
\* The attribute value the browser gets from the raw text between the quotes
DecodeEntities(str) ==
  IF str = << >> THEN << >>
  ELSE LET found == {e \in Entities : StartsWith(str, e.text)}
       IN IF found = {} THEN <<Head(str)>> \o DecodeEntities(Tail(str))
          ELSE LET e == CHOOSE e \in found : TRUE
               IN <<e.ch>> \o DecodeEntities(SubSeq(str, Len(e.text) + 1, Len(str)))

\* The browser reading srcdoc: the content attribute runs from the quote that
\* ends DocHead to the next double quote; rest is the markup from that quote on
ParseSrcdoc(doc) ==
  LET from == Len(DocHead) + 1
      to   == CHOOSE j \in from..Len(doc) :
                /\ doc[j] = "\""
                /\ \A i \in from..(j - 1) : doc[i] # "\""
  IN [content |-> DecodeEntities(SubSeq(doc, from, to - 1)),
      rest    |-> SubSeq(doc, to, Len(doc))]

RECURSIVE SplitOn(_, _)
\* str.split(ch)
SplitOn(str, ch) ==
  IF \A i \in 1..Len(str) : str[i] # ch THEN <<str>>
  ELSE LET i == CHOOSE i \in 1..Len(str) :
                  str[i] = ch /\ \A j \in 1..(i - 1) : str[j] # ch
       IN <<SubSeq(str, 1, i - 1)>> \o SplitOn(SubSeq(str, i + 1, Len(str)), ch)

\* The words of a directive
Words(directive) == SelectSeq(SplitOn(directive, " "), LAMBDA w : w # << >>)

\* The directives of a policy text: name and source list, in order
Directives(policy) ==
  LET parts == SelectSeq(SplitOn(policy, ";"), LAMBDA d : Words(d) # << >>)
  IN [i \in 1..Len(parts) |->
        [name |-> Head(Words(parts[i])), sources |-> Tail(Words(parts[i]))]]

\* The source list that governs fetches of one kind: the first directive of
\* that name, else the first default-src, else no restriction
EffectiveSources(policy, name) ==
  LET ds   == Directives(policy)
      own  == {i \in 1..Len(ds) : ds[i].name = <<name>>}
      dflt == {i \in 1..Len(ds) : ds[i].name = <<"default-src">>}
      first(S) == CHOOSE i \in S : \A j \in S : i <= j
  IN IF own # {} THEN [restricted |-> TRUE, sources |-> ds[first(own)].sources]
     ELSE IF dflt # {} THEN [restricted |-> TRUE, sources |-> ds[first(dflt)].sources]
     ELSE [restricted |-> FALSE, sources |-> << >>]

FetchDirectives ==
  {"connect-src", "img-src", "script-src", "style-src", "font-src",
   "media-src", "frame-src", "object-src", "worker-src"}

NoneSource == <<"'", "none", "'">>

\* Sources that reach nothing outside the document
LocalSources ==
  {NoneSource, <<"'", "unsafe-inline", "'">>, <<"'", "unsafe-eval", "'">>, <<"data:">>}

\* The policy lets the document load something over the network
AllowsNetwork(policy) ==
  \E d \in FetchDirectives :
    LET e == EffectiveSources(policy, d)
    IN \/ ~e.restricted
       \/ \E i \in 1..Len(e.sources) : e.sources[i] \notin LocalSources

\* Characters of the caller-written policy texts that are drawn freely
PolicyChars == {"&", "\"", "'", "<", ">", "a", ";"}

\* "connect-src https://api.github.com"
GithubPolicy == <<"connect-src", " ", "https://api.github.com">>

\* '"> <script>location.href = "about:blank"</script>'
InjectionPolicy ==
  <<"\"", ">", " ", "<", "script", ">", "location.href", " ", "=", " ",
    "\"", "about:blank", "\"", "<", "/script", ">">>

\* " < > & '
SpecialsPolicy == <<"\"", " ", "<", " ", ">", " ", "&", " ", "'">>

\* Caller texts that spell entities themselves: &lt; and &amp;lt;
PolicyOptions ==
  {NoPolicy}
  \cup {Policy(t) : t \in UNION {[1..n -> PolicyChars] : n \in 0..MaxPolicyLen}}
  \cup {Policy(GithubPolicy), Policy(InjectionPolicy), Policy(SpecialsPolicy)}
  \cup {Policy(Lt), Policy(Amp \o Tail(Lt))}

\* createSandbox is called with no globals and one of the policy options
PolicyInit ==
  /\ SessionStart(EmptyObj)
  /\ policyPc = "input"
  /\ policyOpt \in PolicyOptions
  /\ fullContentSecurityPolicy = << >>
  /\ srcdoc = << >>
  /\ parsedDoc = [content |-> << >>, rest |-> << >>]
  /\ RealmIdle
  /\ PairIdle
  /\ SplitIdle
  /\ WalkIdle

\* const fullContentSecurityPolicy = `...`
AssemblePolicy ==
  /\ policyPc = "input"
  /\ fullContentSecurityPolicy' = FullPolicy(policyOpt)
  /\ policyPc' = "assembled"
  /\ UNCHANGED <<policyOpt, srcdoc, parsedDoc, vars, realmVars, pairVars, splitVars, walkVars>>

\* iframe.srcdoc = `...${escapeHtml(fullContentSecurityPolicy)}...`
SetSrcdoc ==
  /\ policyPc = "assembled"
  /\ srcdoc' = SrcdocWith(EscapeHtml(fullContentSecurityPolicy))
  /\ policyPc' = "embedded"
  /\ UNCHANGED <<policyOpt, fullContentSecurityPolicy, parsedDoc, vars, realmVars, pairVars, splitVars, walkVars>>

\* The iframe is appended and the browser reads its document
LoadSrcdoc ==
  /\ policyPc = "embedded"
  /\ parsedDoc' = ParseSrcdoc(srcdoc)
  /\ policyPc' = "parsed"
  /\ UNCHANGED <<policyOpt, fullContentSecurityPolicy, srcdoc, vars, realmVars, pairVars, splitVars, walkVars>>

PolicyNext ==
  \/ AssemblePolicy
  \/ SetSrcdoc
  \/ LoadSrcdoc

PolicySpec == PolicyInit /\ [][PolicyNext]_policyVars

\* ------------------------------------------------- guest: the worker global and its prototype chain
\* const blocked = [...]
Blocked ==
  <<"name", "navigator", "location", "requestAnimationFrame", "Worker", "SharedWorker">>

BlockedNames == {Blocked[i] : i \in 1..Len(Blocked)}

\* Names sandboxed code and the globals graphs use, in a fixed order
RealmNames == Blocked \o <<"console", "onmessage", "myNumber", "notExposed", "__hostSecret">>

RealmNameSet == {RealmNames[i] : i \in 1..Len(RealmNames)}

\* What the browser put under an ambient name
Original(name) == [tag |-> "ambient", name |-> name]

\* Own property descriptors. value is the value of a data property, and what
\* the getter of an accessor returns; setter is none, or handler for an event
\* handler attribute, whose setter keeps objects and turns the rest into null
Absent == [kind |-> "absent", value |-> Undef, writable |-> FALSE, setter |-> "none"]

Data(value, writable) ==
  [kind |-> "data", value |-> value, writable |-> writable, setter |-> "none"]

Accessor(value, setter) ==
  [kind |-> "accessor", value |-> value, writable |-> FALSE, setter |-> setter]

\* The descriptor the browser gives an ambient name: name, navigator and
\* location are getters without a setter that still works after a
\* redefinition, constructors, methods and console are writable data
\* properties, onmessage is an event handler attribute. All are configurable.
AmbientDescriptor(name) ==
  CASE name \in {"name", "navigator", "location"} -> Accessor(Original(name), "none")
    [] name = "onmessage" -> Accessor(Null, "handler")
    [] OTHER -> Data(Original(name), TRUE)

\* Levels of the chain that can own a getter: one or two of them
OwnerSets == {S \in SUBSET (1..ChainDepth) : Cardinality(S) \in {1, 2}}

\* Where the browser defines the ambient names: navigator and location on
\* one or two levels, name and requestAnimationFrame on the global or its
\* prototype, SharedWorker on the global or nowhere
Layouts ==
  [name : {{1}, {2}}, nav : OwnerSets, raf : {{1}, {2}}, shared : {{1}, {}}]

Owners(layout, name) ==
  CASE name = "name" -> layout.name
    [] name \in {"navigator", "location"} -> layout.nav
    [] name = "requestAnimationFrame" -> layout.raf
    [] name = "SharedWorker" -> layout.shared
    [] name \in {"Worker", "console", "onmessage"} -> {1}
    [] OTHER -> {}

\* The chain when the worker script starts: level 1 is globalThis
RealmOf(layout) ==
  [level \in 1..ChainDepth |->
     [name \in RealmNameSet |->
        IF level \in Owners(layout, name) THEN AmbientDescriptor(name) ELSE Absent]]

\* Object.defineProperty(proto, prop, { value: undefined }) on a configurable
\* own property: a data property keeps its writable attribute, an accessor
\* becomes a data property that is not writable
DefineUndefined(desc) ==
  Data(Undef, IF desc.kind = "data" THEN desc.writable ELSE FALSE)

\* if (Object.hasOwn(proto, prop)) Object.defineProperty(...)
ScrubOwn(object, prop) ==
  IF object[prop].kind # "absent"
  THEN [object EXCEPT ![prop] = DefineUndefined(@)]
  ELSE object

RECURSIVE WalkChain(_, _, _)
\* A walk that looks at the global only
WalkGlobalOnly(chain, level, prop) ==
  IF level > 1 THEN chain
  ELSE WalkChain([chain EXCEPT ![level] = ScrubOwn(@, prop)], level + 1, prop)

\* let proto = globalThis; while (proto) { ...; proto = Object.getPrototypeOf(proto) }
WalkChain(chain, level, prop) ==
  IF level > Len(chain) THEN chain
  ELSE WalkChain([chain EXCEPT ![level] = ScrubOwn(@, prop)], level + 1, prop)

RECURSIVE ScrubFrom(_, _)
\* for (const prop of blocked), from the i-th name on
ScrubFrom(chain, i) ==
  IF i > Len(Blocked) THEN chain
  ELSE ScrubFrom(WalkChain(chain, 1, Blocked[i]), i + 1)

\* The first level that owns the name, 0 when none does
OwnerLevel(chain, name) ==
  LET owning == {l \in 1..Len(chain) : chain[l][name].kind # "absent"}
  IN IF owning = {} THEN 0 ELSE CHOOSE l \in owning : \A m \in owning : l <= m

\* globalThis[name]
GetProperty(chain, name) ==
  IF OwnerLevel(chain, name) = 0 THEN Undef
  ELSE chain[OwnerLevel(chain, name)][name].value

\* What an event handler attribute keeps of an assigned value
HandlerValue(value) ==
  IF value.tag \in {"obj", "arr", "fn", "proxy", "ambient"} THEN value ELSE Null

\* globalThis[name] = value in strict code: ok is FALSE when it throws a
\* TypeError (the property found is not writable, or a getter without setter)
SetProperty(chain, name, value) ==
  LET l == OwnerLevel(chain, name)
  IN IF l = 0
     THEN [ok |-> TRUE, chain |-> [chain EXCEPT ![1][name] = Data(value, TRUE)]]
     ELSE LET desc == chain[l][name]
          IN CASE desc.kind = "data" /\ desc.writable ->
                    [ok |-> TRUE, chain |-> [chain EXCEPT ![1][name] = Data(value, TRUE)]]
               [] desc.kind = "accessor" /\ desc.setter = "handler" ->
                    [ok |-> TRUE,
                     chain |-> [chain EXCEPT ![l][name] =
                                  Accessor(HandlerValue(value), "handler")]]
               [] OTHER -> [ok |-> FALSE, chain |-> chain]

RECURSIVE AssignEntries(_, _, _)
\* for (const [key, value] of Object.entries(constants)) globalThis[key] = value,
\* from entry i, on the global with its prototype chain; it stops where it throws
AssignEntries(kids, i, chain) ==
  IF i > Len(kids) THEN [ok |-> TRUE, chain |-> chain]
  ELSE LET r == SetProperty(chain, kids[i][1], kids[i][2])
       IN IF r.ok THEN AssignEntries(kids, i + 1, r.chain) ELSE r

\* constants as setGlobals binds it: the proxies merged into the constants
InstalledTree(graph) ==
  LET split == ExtractMethods(graph, << >>)
  IN InjectMethods(split.methods, split.constants)

\* The names code can resolve as identifiers, with their values
ScopeOf(chain) ==
  LET bound == SelectSeq(RealmNames, LAMBDA n : OwnerLevel(chain, n) # 0)
  IN Obj([i \in 1..Len(bound) |-> <<bound[i], GetProperty(chain, bound[i])>>])

\* The globals graphs of the sessions whose worker is looked at: no globals,
\* a fresh name, and names the worker scope has already
RealmGraphs ==
  { EmptyObj,
    Obj(<< <<"myNumber", Num(42)>> >>),
    Obj(<< <<"console", Obj(<< <<"log", Fn("add")>> >>)>> >>),
    Obj(<< <<"navigator", Obj(<< <<"userAgent", Str("x")>> >>)>> >>),
    Obj(<< <<"Worker", Fn("add")>> >>),
    Obj(<< <<"onmessage", Num(5)>> >>) }

\* globalThis.__hostSecret = 'host-only' in the page that embeds the sandbox
HostGlobalScope == Obj(<< <<"__hostSecret", Str("host-only")>> >>)

\* The worker of a session has been created and its script has not run yet
RealmInit ==
  /\ SessionStart(EmptyObj)
  /\ PolicyIdle
  /\ realmPc = "loaded"
  /\ realm \in {RealmOf(layout) : layout \in Layouts}
  /\ realmGlobals \in RealmGraphs
  /\ realmLast = NoEval
  /\ PairIdle
  /\ SplitIdle
  /\ WalkIdle

\* The worker script runs: the scrub loop, then createWorkerServer
WorkerScript ==
  /\ realmPc = "loaded"
  /\ realm' = ScrubFrom(realm, 1)
  /\ realmPc' = "serving"
  /\ UNCHANGED <<realmGlobals, realmLast, vars, policyVars, pairVars, splitVars, walkVars>>

\* The setGlobals handler; when an assignment throws the call is rejected
\* and createSandbox with it
RealmSetGlobals ==
  /\ realmPc = "serving"
  /\ LET r == AssignEntries(InstalledTree(realmGlobals).kids, 1, realm)
     IN /\ realm' = r.chain
        /\ realmPc' = IF r.ok THEN "installed" ELSE "rejected"
  /\ UNCHANGED <<realmGlobals, realmLast, vars, policyVars, pairVars, splitVars, walkVars>>

Evaluated(expr, id, level, outcome) ==
  [expr |-> expr, id |-> id, level |-> level, ok |-> outcome.ok, val |-> outcome.val]

\* run('return <id>')
EvalIdentifier ==
  /\ realmPc = "installed"
  /\ \E id \in RealmNameSet :
       realmLast' = Evaluated("identifier", id, 0,
                              RunCode(ScopeOf(realm), ReturnPath(<<id>>)))
  /\ UNCHANGED <<realmPc, realm, realmGlobals, vars, policyVars, pairVars, splitVars, walkVars>>

\* run('return globalThis.<id>')
EvalGlobalProperty ==
  /\ realmPc = "installed"
  /\ \E id \in RealmNameSet :
       realmLast' = Evaluated("property", id, 0,
                              [ok |-> TRUE, val |-> GetProperty(realm, id)])
  /\ UNCHANGED <<realmPc, realm, realmGlobals, vars, policyVars, pairVars, splitVars, walkVars>>

\* run of a getPrototypeOf walk to a level and
\* Object.getOwnPropertyDescriptor(proto, id), returning desc.get.call(self)
\* or desc.value
EvalReflect ==
  /\ realmPc = "installed"
  /\ \E id \in BlockedNames, level \in 1..ChainDepth :
       realmLast' = Evaluated("reflect", id, level,
                              [ok |-> TRUE, val |-> realm[level][id].value])
  /\ UNCHANGED <<realmPc, realm, realmGlobals, vars, policyVars, pairVars, splitVars, walkVars>>

RealmNext ==
  \/ WorkerScript
  \/ RealmSetGlobals
  \/ EvalIdentifier
  \/ EvalGlobalProperty
  \/ EvalReflect

RealmSpec == RealmInit /\ [][RealmNext]_realmVars

\* ------------------------------------------------- two sessions side by side
\* sandbox1 and sandbox2
Sessions == {1, 2}

\* opts.globals of the two createSandbox calls: the same key, a different
\* host function behind it
PairGlobals(s) ==
  IF s = 1 THEN Obj(<< <<"call", Fn("add")>> >>)
  ELSE Obj(<< <<"call", Fn("fail")>> >>)

\* The code texts run on either session
PairPrograms == {SetCounter, ReturnCounter, CallPath(<<"call">>, << >>, FALSE)}

\* What one createSandbox call and the worker it leads to hold.  toGuest and
\* toHost are the two directions of the session's own channel, relay included
NewSession ==
  [pc |-> "start", table |-> << >>, constants |-> EmptyObj, methods |-> EmptyObj,
   scope |-> EmptyObj, toGuest |-> << >>, toHost |-> << >>, runs |-> << >>,
   log |-> << >>]

\* const methodsById = [] inside createSandbox: the table onMethod of
\* session s closes over
SessionTable(p, s) == p[s].table

\* A guest global scope that is one for all sessions
SessionScopeShared(p, s) == p[1].scope

\* new Worker(...) in the relay of session s: the global scope its code runs in
SessionScope(p, s) == p[s].scope

PairInit ==
  /\ SessionStart(EmptyObj)
  /\ PolicyIdle
  /\ RealmIdle
  /\ pair = [s \in Sessions |-> NewSession]
  /\ SplitIdle
  /\ WalkIdle

\* createSandbox for session s, up to the setGlobals call
PairCreateSandbox(s) ==
  /\ pair[s].pc = "start"
  /\ LET split == ExtractMethods(PairGlobals(s), << >>)
     IN pair' = [pair EXCEPT ![s].pc = "awaitSetGlobals",
                             ![s].table = split.table,
                             ![s].constants = split.constants,
                             ![s].methods = split.methods,
                             ![s].toGuest = Append(@, Req(SetGlobalsId, "setGlobals",
                                 [constants |-> split.constants,
                                  methods |-> split.methods]))]
  /\ UNCHANGED <<vars, policyVars, realmVars, splitVars, walkVars>>

\* The worker of session s handles setGlobals
PairGuestSetGlobals(s) ==
  /\ pair[s].toGuest # << >>
  /\ Head(pair[s].toGuest).kind = "req"
  /\ Head(pair[s].toGuest).method = "setGlobals"
  /\ LET m == Head(pair[s].toGuest)
     IN pair' = [pair EXCEPT ![s].scope = SetGlobals(SessionScope(pair, s),
                                                     m.body.constants, m.body.methods),
                             ![s].toGuest = Tail(@),
                             ![s].toHost = Append(@, Res(m.id, TRUE, Undef))]
  /\ UNCHANGED <<vars, policyVars, realmVars, splitVars, walkVars>>

\* The worker of session s handles run
PairGuestRun(s) ==
  /\ pair[s].toGuest # << >>
  /\ Head(pair[s].toGuest).kind = "req"
  /\ Head(pair[s].toGuest).method = "run"
  /\ LET m == Head(pair[s].toGuest)
         o == RunCode(SessionScope(pair, s), m.body.code)
     IN pair' = [pair EXCEPT ![s].scope = RunScope(SessionScope(pair, s), m.body.code),
                             ![s].toGuest = Tail(@),
                             ![s].toHost = Append(@,
                                 IF o.kind = "call"
                                 THEN Req(m.id, "onMethod",
                                          [methodId |-> o.methodId, params |-> o.params])
                                 ELSE Res(m.id, o.ok, o.val))]
  /\ UNCHANGED <<vars, policyVars, realmVars, splitVars, walkVars>>

\* The worker of session s gets the outcome of its proxy call; the run
\* that awaited it settles with it
PairGuestResume(s) ==
  /\ pair[s].toGuest # << >>
  /\ Head(pair[s].toGuest).kind = "res"
  /\ LET m == Head(pair[s].toGuest)
     IN pair' = [pair EXCEPT ![s].toGuest = Tail(@),
                             ![s].toHost = Append(@, Res(m.id, m.ok, m.val))]
  /\ UNCHANGED <<vars, policyVars, realmVars, splitVars, walkVars>>

\* onMethod of session s serves a request of its channel
PairHostOnMethod(s) ==
  /\ pair[s].toHost # << >>
  /\ Head(pair[s].toHost).kind = "req"
  /\ LET m == Head(pair[s].toHost)
         r == OnMethod(SessionTable(pair, s), m.body.methodId, m.body.params)
     IN pair' = [pair EXCEPT ![s].toHost = Tail(@),
                             ![s].log = IF r.invoked
                                        THEN Append(@, [methodId |-> m.body.methodId,
                                                        f |-> r.f, args |-> r.args])
                                        ELSE @,
                             ![s].toGuest = Append(@, Res(m.id, r.ok, r.val))]
  /\ UNCHANGED <<vars, policyVars, realmVars, splitVars, walkVars>>

\* guestClient of session s gets a response: setGlobals lets createSandbox
\* resolve, any other settles the run that waits for it
PairHostSettle(s) ==
  /\ pair[s].toHost # << >>
  /\ Head(pair[s].toHost).kind = "res"
  /\ LET m == Head(pair[s].toHost)
     IN IF m.id = SetGlobalsId
        THEN pair' = [pair EXCEPT ![s].toHost = Tail(@),
                                  ![s].pc = IF m.ok THEN "ready" ELSE "failed"]
        ELSE pair' = [pair EXCEPT ![s].toHost = Tail(@),
                                  ![s].runs[m.id - 1].state =
                                     IF m.ok THEN "resolved" ELSE "rejected",
                                  ![s].runs[m.id - 1].val = m.val]
  /\ UNCHANGED <<vars, policyVars, realmVars, splitVars, walkVars>>

\* sandbox.run(code) on session s, once its earlier runs have settled
PairRun(s) ==
  /\ pair[s].pc = "ready"
  /\ Len(pair[s].runs) < MaxPairRuns
  /\ \A k \in DOMAIN pair[s].runs : pair[s].runs[k].state # "pending"
  /\ \E code \in PairPrograms :
       pair' = [pair EXCEPT ![s].runs = Append(@, [code |-> code, state |-> "pending",
                                                   val |-> Undef, afterDispose |-> FALSE]),
                            ![s].toGuest = Append(@, Req(Len(pair[s].runs) + 2, "run",
                                                         [code |-> code]))]
  /\ UNCHANGED <<vars, policyVars, realmVars, splitVars, walkVars>>

PairNext ==
  \/ \E s \in Sessions : PairCreateSandbox(s)
  \/ \E s \in Sessions : PairGuestSetGlobals(s)
  \/ \E s \in Sessions : PairGuestRun(s)
  \/ \E s \in Sessions : PairGuestResume(s)
  \/ \E s \in Sessions : PairHostOnMethod(s)
  \/ \E s \in Sessions : PairHostSettle(s)
  \/ \E s \in Sessions : PairRun(s)

PairSpec == PairInit /\ [][PairNext]_pairVars

\* ------------------------------------------------- the host side alone: splitter and onMethod
\* Keys of an object of opts.globals, in insertion order
KeyNames == <<"a", "b", "c", "d", "e", "f">>

\* Leaves of opts.globals: data, null, a synchronous and an async function
SplitLeaves == {Num(1), Null, Fn("add"), Fn("fetchValue")}

\* The entries of an object literal holding these values in this order
Keyed(values) == [i \in 1..Len(values) |-> <<KeyNames[i], values[i]>>]

RECURSIVE ValuesOfSize(_)
RECURSIVE EntriesOfSize(_)
\* Values made of exactly s nodes: a leaf, or an object and what it holds
ValuesOfSize(s) ==
  (IF s = 1 THEN SplitLeaves ELSE {})
    \cup {Obj(Keyed(values)) : values \in EntriesOfSize(s - 1)}

\* Sequences of values made of n nodes together
EntriesOfSize(n) ==
  IF n = 0 THEN {<< >>}
  ELSE UNION { {<<value>> \o rest : value \in ValuesOfSize(s),
                                    rest \in EntriesOfSize(n - s)}
               : s \in 1..n }

\* Every opts.globals graph of at most MaxNodes values
SplitSources ==
  UNION { {Obj(Keyed(values)) : values \in EntriesOfSize(n)} : n \in 0..MaxNodes }

\* methodId values of an onMethod request: numbers in and next to the range
\* of a table of n entries, and values of every other type
MethodIds(n) ==
  {Num(i) : i \in {-1, 0, n - 1, n}}
    \cup {Str("0"), Null, Undef, Arr(<<Num(0)>>), EmptyObj}

SplitInit ==
  /\ SessionStart(EmptyObj)
  /\ PolicyIdle
  /\ RealmIdle
  /\ PairIdle
  /\ splitPc = "input"
  /\ splitSource \in SplitSources
  /\ splitOut = [constants |-> EmptyObj, methods |-> EmptyObj, table |-> << >>]
  /\ splitCall = NoCall
  /\ WalkIdle

\* const methodsById = []; const { constants, methods } = extractMethods(opts?.globals ?? {})
SplitExtract ==
  /\ splitPc = "input"
  /\ splitOut' = ExtractMethods(splitSource, << >>)
  /\ splitPc' = "split"
  /\ UNCHANGED <<splitSource, splitCall, vars, policyVars, realmVars, pairVars, walkVars>>

\* The onMethod handler serving a request; what it does depends on the
\* request and on methodsById only, so one request is served on each graph.
SplitOnMethod ==
  /\ splitPc = "split"
  /\ \E methodId \in MethodIds(Len(splitOut.table)), params \in ArgLists :
       LET o == OnMethod(splitOut.table, methodId, params)
       IN splitCall' = [methodId |-> methodId, params |-> params,
                        invoked |-> o.invoked, f |-> o.f, ok |-> o.ok, val |-> o.val]
  /\ splitPc' = "served"
  /\ UNCHANGED <<splitSource, splitOut, vars, policyVars, realmVars, pairVars, walkVars>>

SplitNext == SplitExtract \/ SplitOnMethod

SplitSpec == SplitInit /\ [][SplitNext]_splitVars

\* ------------------------------------------------- the splitter call by call
\* A value that is a reference to the object held at this place of the heap
Ref(n) == [tag |-> "ref", node |-> n]

\* The objects of opts.globals; the first one is opts.globals itself
HeapNodes == {1, 2}

\* What a key of an object holds: data, a function, or one of the objects
HeapValues == {Num(1), Fn("add")} \cup {Ref(n) : n \in HeapNodes}

\* Every object of at most two keys
HeapObjects == {Keyed(values) : values \in {<< >>} \cup {<<v>> : v \in HeapValues}
                                              \cup (HeapValues \X HeapValues)}

\* extractMethods(source) has been entered: const constants = {}; const methods = {}
Entered(n) == [node |-> n, i |-> 1, constants |-> EmptyObj, methods |-> EmptyObj]

\* A promise of an async function whose body throws and never settles it
ThrownNeverSettles == "pending"

\* createSandbox is an async function: when its body throws, its promise rejects
Thrown == "rejected"

WalkInit ==
  /\ SessionStart(EmptyObj)
  /\ PolicyIdle
  /\ RealmIdle
  /\ PairIdle
  /\ SplitIdle
  /\ walkPc = "walking"
  /\ walkHeap \in [HeapNodes -> HeapObjects]
  /\ walkStack = <<Entered(1)>>
  /\ walkTable = << >>

\* One turn of the for loop of the innermost extractMethods call. A function
\* and data are stored at once. An object is a call of extractMethods: the
\* engine enters it while its call stack has room, and throws otherwise.
WalkEntry ==
  /\ walkPc = "walking"
  /\ LET depth == Len(walkStack)
         top   == walkStack[depth]
         kids  == walkHeap[top.node]
     IN /\ top.i <= Len(kids)
        /\ LET key   == kids[top.i][1]
               value == kids[top.i][2]
               acc   == [constants |-> top.constants, methods |-> top.methods,
                         table |-> walkTable]
               next  == IF TypeOf(value) = "function"
                        THEN ExtractFunction(acc, key, value)
                        ELSE ExtractConstant(acc, key, value)
           IN IF TypeOf(value) = "object" /\ value.tag # "null"
              THEN IF depth < StackLimit
                   THEN /\ walkStack' = Append(walkStack, Entered(value.node))
                        /\ UNCHANGED <<walkPc, walkTable>>
                   ELSE /\ walkPc' = Thrown
                        /\ UNCHANGED <<walkStack, walkTable>>
              ELSE /\ walkStack' = [walkStack EXCEPT ![depth] =
                                      [node |-> top.node, i |-> top.i + 1,
                                       constants |-> next.constants,
                                       methods |-> next.methods]]
                   /\ walkTable' = next.table
                   /\ UNCHANGED walkPc
  /\ UNCHANGED <<walkHeap, vars, policyVars, realmVars, pairVars, splitVars>>

\* return { constants, methods }: the caller stores the child's trees under
\* the key it is at and goes on with its loop; the outermost call returns to
\* createSandbox.
WalkReturn ==
  /\ walkPc = "walking"
  /\ LET depth == Len(walkStack)
         top   == walkStack[depth]
     IN /\ top.i > Len(walkHeap[top.node])
        /\ IF depth = 1
           THEN /\ walkPc' = "done"
                /\ UNCHANGED walkStack
           ELSE LET caller == walkStack[depth - 1]
                    key    == walkHeap[caller.node][caller.i][1]
                    acc    == [constants |-> caller.constants,
                               methods |-> caller.methods, table |-> walkTable]
                    child  == [constants |-> top.constants,
                               methods |-> top.methods, table |-> walkTable]
                    next   == ExtractObject(acc, key, child)
                IN /\ walkStack' = [SubSeq(walkStack, 1, depth - 1)
                                      EXCEPT ![depth - 1] =
                                        [node |-> caller.node, i |-> caller.i + 1,
                                         constants |-> next.constants,
                                         methods |-> next.methods]]
                   /\ UNCHANGED walkPc
  /\ UNCHANGED <<walkHeap, walkTable, vars, policyVars, realmVars, pairVars, splitVars>>

WalkNext == WalkEntry \/ WalkReturn

\* The walk is synchronous code: the engine runs it until it returns or throws
WalkSpec == WalkInit /\ [][WalkNext]_walkVars /\ WF_walkVars(WalkNext)

\* ------------------------------------------------- properties
IsSettled(k) == runs[k].state \in {"resolved", "rejected"}

\* The host function a call text names, looked up in opts.globals
Callee(code) == ValueAt(globals, code.path).f

\* C1: when sandboxed code calls the identifier at the path of a callable f
\* with arguments a1..an, f is invoked in the host with exactly a1..an, and
\* the call resolves to the value f returns, also when f is async.  Stated
\* on every settled run of 'return await <path>(a1..an)': the host log
\* holds the invocation of f with a1..an, and when f returns the run has
\* resolved to its value; and every invocation in the host log is the one
\* of a run that called that function with those arguments.
C1_CallReachesHostFunction ==
  /\ \A k \in DOMAIN runs :
       (runs[k].code.op = "call" /\ IsSettled(k)) =>
         LET f == Callee(runs[k].code)
             a == runs[k].code.args
         IN /\ \E i \in DOMAIN hostLog : hostLog[i].f = f /\ hostLog[i].args = a
            /\ ~Throws(f) =>
                 (runs[k].state = "resolved" /\ runs[k].val = ReturnOf(f, a))
  /\ \A i \in DOMAIN hostLog :
       \E k \in DOMAIN runs :
         /\ runs[k].code.op = "call"
         /\ Callee(runs[k].code) = hostLog[i].f
         /\ runs[k].code.args = hostLog[i].args

\* A run that called the async function nested three keys deep with the
\* longest argument list has resolved
C1_Witness ==
  \E k \in DOMAIN runs :
    /\ runs[k].code.op = "call"
    /\ Len(runs[k].code.path) >= 3
    /\ IsAsync(Callee(runs[k].code))
    /\ Len(runs[k].code.args) = MaxArgs
    /\ runs[k].state = "resolved"
    /\ runs[k].val = ReturnOf(Callee(runs[k].code), runs[k].code.args)

\* C2: for every non-callable value v at any path of the globals graph,
\* with or without callable siblings, run('return <path-to-v>') resolves to
\* a value structurally equal to v.
C2_ConstantsReadBack ==
  \A k \in DOMAIN runs :
    (runs[k].code.op = "read" /\ IsSettled(k)) =>
      /\ runs[k].state = "resolved"
      /\ runs[k].val = ValueAt(globals, runs[k].code.path)

\* C3: a run(code) called after dispose() rejects at once with the error
\* 'Sandbox has been disposed'.
C3_RunAfterDisposeRejects ==
  \A k \in DOMAIN runs :
    runs[k].afterDispose =>
      /\ runs[k].state = "rejected"
      /\ runs[k].val = Err("Sandbox has been disposed")

\* Nothing but a call of the application (run, dispose) can happen
Quiescent ==
  ~ENABLED (\/ HostOnMethod \/ HostFnComplete \/ HostSettle
            \/ RelayInit \/ RelayToWorker \/ RelayToPort
            \/ WorkerStart \/ GuestSetGlobals \/ GuestRun \/ GuestResume)

\* C4: a run that is pending when dispose() is called settles and does
\* not stay pending forever: once the session has been disposed and no
\* message or host function is left to be handled, no run issued before the
\* disposal is still pending.
C4_DisposeSettlesPendingRun ==
  (disposeCalls > 0 /\ Quiescent) =>
    \A k \in DOMAIN runs : ~runs[k].afterDispose => IsSettled(k)

\* C5: dispose() is idempotent: a second or later call does not throw and
\* leaves every part of the session as the first call left it.
C5_DisposeIdempotent ==
  [][(disposeCalls = 1 /\ disposeCalls' = 2) =>
       (UNCHANGED sessionVars /\ ~hostThrown')]_vars

\* dispose has been called twice while a run was pending
C5_Witness ==
  /\ disposeCalls = 2
  /\ ~hostThrown
  /\ port2 = "closed"
  /\ PendingRuns # {}

\* C6: after dispose() returns the port is closed and the iframe is
\* detached in every later state, and no host function is invoked any more,
\* whatever the guest still sends.
C6_DisposeReleases ==
  /\ [](disposeCalls > 0 => (port2 = "closed" /\ ~iframeAttached))
  /\ [][disposeCalls > 0 => hostLog' = hostLog]_vars

\* After dispose, an onMethod request of the guest waits at the closed port
C6_Witness ==
  /\ disposeCalls > 0
  /\ r2h # << >>
  /\ Head(r2h).kind = "req"
  /\ Head(r2h).method = "onMethod"
  /\ TypeOf(Head(r2h).body.methodId) = "number"
  /\ Head(r2h).body.methodId.v \in 0..(Len(methodsById) - 1)

\* A value holds a host function
RECURSIVE HasHostFn(_)
HasHostFn(value) ==
  \/ value.tag = "fn"
  \/ /\ value.tag = "obj"
     /\ \E i \in 1..Len(value.kids) : HasHostFn(value.kids[i][2])

\* A message on its way to the guest carries a host function
CarriesHostFn(m) ==
  IF m.kind = "res" THEN HasHostFn(m.val)
  ELSE IF m.method = "setGlobals"
       THEN HasHostFn(m.body.constants) \/ HasHostFn(m.body.methods)
       ELSE FALSE

\* C7: from the moment the splitter has run, the capability table is
\* never changed by run, invoke handling or dispose; every invocation is of
\* the function the splitter stored at the index the request named; and the
\* guest holds proxies and data only, never a host function value.
C7_TableFixedAndTokensOnly ==
  /\ [](hpc # "start" => methodsById = ExtractMethods(globals, << >>).table)
  /\ [][hpc # "start" => methodsById' = methodsById]_vars
  /\ [](\A i \in DOMAIN hostLog :
          /\ TypeOf(hostLog[i].methodId) = "number"
          /\ hostLog[i].methodId.v + 1 \in DOMAIN methodsById
          /\ methodsById[hostLog[i].methodId.v + 1] = Fn(hostLog[i].f))
  /\ [](/\ ~HasHostFn(guestScope)
        /\ \A i \in DOMAIN h2r : ~CarriesHostFn(h2r[i])
        /\ \A i \in DOMAIN r2w : ~CarriesHostFn(r2w[i]))

\* The second entry of the table was dispatched to, and the session has
\* since been disposed with the table as the splitter left it
C7_Witness ==
  /\ \E i \in DOMAIN hostLog : hostLog[i].methodId = Num(1)
  /\ Len(methodsById) >= 2
  /\ disposeCalls > 0
  /\ Len(runs) = MaxRuns

\* C8: an onMethod request whose methodId is a number that is no index of
\* the capability table is answered as a success yielding no value, and
\* invokes no host function.
C8_OutOfRangeTokenYieldsNoValue ==
  \A k \in DOMAIN runs :
    (/\ runs[k].code.op = "forge"
     /\ TypeOf(runs[k].code.methodId) = "number"
     /\ runs[k].code.methodId.v \notin 0..(Len(methodsById) - 1)
     /\ IsSettled(k)) =>
      /\ runs[k].state = "resolved"
      /\ runs[k].val = Undef

\* C9: when an exposed host function throws or rejects, the awaiting
\* proxy call in the guest rejects with that failure: code that does not
\* catch it has its run rejected with the host's error, code that catches
\* it goes on, and no exception escapes into the host application.
C9_HostErrorPropagates ==
  /\ ~hostThrown
  /\ \A k \in DOMAIN runs :
       (/\ runs[k].code.op = "call"
        /\ Throws(Callee(runs[k].code))
        /\ IsSettled(k)) =>
         IF runs[k].code.catch
         THEN runs[k].state = "resolved" /\ runs[k].val = Str("caught")
         ELSE runs[k].state = "rejected" /\ runs[k].val = Err("host error")

\* One run was rejected by a throwing function and another one caught the
\* rejection of an async function
C9_Witness ==
  /\ \E k \in DOMAIN runs :
       /\ runs[k].code.op = "call"
       /\ Callee(runs[k].code) = "fail"
       /\ runs[k].state = "rejected"
       /\ runs[k].val = Err("host error")
  /\ \E k \in DOMAIN runs :
       /\ runs[k].code.op = "call"
       /\ Callee(runs[k].code) = "failLater"
       /\ runs[k].state = "resolved"
       /\ runs[k].val = Str("caught")
  /\ ~hostThrown

\* C10: a run whose code does not compile rejects that run only, with a
\* SyntaxError; handling it leaves the guest scope and its suspended runs
\* untouched, and a run('return 1') on the same session resolves to 1.
C10_SyntaxErrorRejectsRunOnly ==
  /\ [](\A k \in DOMAIN runs :
          IsSettled(k) =>
            /\ runs[k].code = Unbalanced =>
                 (runs[k].state = "rejected" /\ runs[k].val = Err("SyntaxError"))
            /\ runs[k].code = ReturnOne =>
                 (runs[k].state = "resolved" /\ runs[k].val = Num(1)))
  /\ [][(/\ r2w # << >>
         /\ Head(r2w).kind = "req"
         /\ Head(r2w).method = "run"
         /\ Head(r2w).body.code = Unbalanced
         /\ r2w' = Tail(r2w)) =>
          UNCHANGED <<guestScope, guestTasks, guestNextId, workerStarted>>]_vars

\* A run of unbalanced code rejected, and the next run returned 1
C10_Witness ==
  /\ Len(runs) = 2
  /\ runs[1].code = Unbalanced
  /\ runs[1].state = "rejected"
  /\ runs[1].val = Err("SyntaxError")
  /\ runs[2].code = ReturnOne
  /\ runs[2].state = "resolved"
  /\ runs[2].val = Num(1)

\* The value the last assignment of the runs before run k gave __counter,
\* undefined when there was none, and the op of that run
LastSetBefore(k) ==
  LET S == {j \in 1..(k - 1) : runs[j].code.op \in {"set", "setThrow", "setReject"}}
  IN IF S = {} THEN [op |-> "none", val |-> Undef]
     ELSE LET j == CHOOSE j \in S : \A i \in S : i <= j
          IN [op |-> runs[j].code.op, val |-> runs[j].code.args[1]]

\* C11: a run whose code throws, or whose awaited step rejects, rejects
\* that run only, with its own error; no settled run is ever changed; the
\* session stays usable, and what the code assigned to globalThis before it
\* failed is what a later run reads.
C11_RuntimeFailureRejectsRunOnly ==
  /\ [](\A k \in DOMAIN runs :
          IsSettled(k) =>
            /\ runs[k].code = SetThenThrow =>
                 (runs[k].state = "rejected" /\ runs[k].val = Err("boom"))
            /\ runs[k].code = SetThenReject =>
                 (runs[k].state = "rejected" /\ runs[k].val = Err("async boom"))
            /\ (runs[k].code = ReturnCounter
                /\ LastSetBefore(k).op \in {"setThrow", "setReject"}) =>
                 (runs[k].state = "resolved" /\ runs[k].val = LastSetBefore(k).val))
  /\ [][\A k \in DOMAIN runs : IsSettled(k) => runs'[k] = runs[k]]_vars

\* A run that assigned and then rejected asynchronously was followed by a
\* run that read the assigned value
C11_Witness ==
  /\ Len(runs) = 2
  /\ runs[1].code = SetThenReject
  /\ runs[1].state = "rejected"
  /\ runs[2].code = ReturnCounter
  /\ runs[2].state = "resolved"
  /\ runs[2].val = Num(3)

\* C12: the guest global scope lives as long as the session: it changes
\* only when setGlobals installs the globals and when the code of a run
\* assigns to it, so that a later run reads what an earlier run assigned
\* (run('globalThis.__counter = 1') then run('return globalThis.__counter')
\* resolves to 1) and reads undefined when no run assigned.
C12_GlobalScopePersists ==
  /\ [](\A k \in DOMAIN runs :
          (IsSettled(k) /\ runs[k].code = ReturnCounter
           /\ LastSetBefore(k).op \in {"set", "none"}) =>
             (runs[k].state = "resolved" /\ runs[k].val = LastSetBefore(k).val))
  /\ [][guestScope' # guestScope =>
          /\ r2w # << >>
          /\ Head(r2w).kind = "req"
          /\ \/ /\ Head(r2w).method = "setGlobals"
                /\ Get(guestScope', "__counter") = Get(guestScope, "__counter")
             \/ /\ Head(r2w).method = "run"
                /\ Head(r2w).body.code.op \in {"set", "setThrow", "setReject"}
                /\ guestScope' = Put(guestScope, "__counter",
                                     Head(r2w).body.code.args[1])]_vars

\* run('globalThis.__counter = 1') was followed by a run that returned 1,
\* in a session with installed globals
C12_Witness ==
  /\ Len(runs) = 2
  /\ runs[1].code = SetCounter
  /\ runs[1].state = "resolved"
  /\ runs[2].code = ReturnCounter
  /\ runs[2].state = "resolved"
  /\ runs[2].val = Num(1)
  /\ Len(Keys(guestScope)) >= 2

\* Top-level entries of the globals graph whose value is an array
ArrayEntries == {i \in 1..Len(globals.kids) : globals.kids[i][2].tag = "arr"}

\* C18: an array of the globals graph is a leaf for the splitter: constants
\* holds it by value as an array, methods has nothing under its key, no
\* token is allocated for anything inside it, and a run that returns it
\* resolves to the array.
C18_ArrayIsLeaf ==
  /\ hpc # "start" =>
       /\ \A i \in ArrayEntries :
            /\ Get(constants, globals.kids[i][1]) = globals.kids[i][2]
            /\ ~HasKey(methods, globals.kids[i][1])
       /\ Len(methodsById) =
            Cardinality({i \in 1..Len(globals.kids) : TypeOf(globals.kids[i][2]) = "function"})
            + Cardinality({p \in PathsOf(globals) :
                             Len(p) > 1 /\ TypeOf(ValueAt(globals, p)) = "function"})
  /\ \A k \in DOMAIN runs :
       (IsSettled(k) /\ runs[k].code.op = "read"
        /\ ValueAt(globals, runs[k].code.path).tag = "arr") =>
          (runs[k].state = "resolved"
           /\ runs[k].val = ValueAt(globals, runs[k].code.path))

\* C20: when the iframe fires its error event instead of load, createSandbox
\* rejects, in a later step than the call; it stays rejected, hands out no
\* session (no run, no dispose, nothing thrown in the host), and a session
\* gets past loading only when the relay script has run.
C20_LoadFailureRejects ==
  /\ [](hpc \notin {"start", "loading", "failed"} => relay # "none")
  /\ [](hpc = "failed" =>
          /\ runs = << >>
          /\ disposeCalls = 0
          /\ ~hostThrown
          /\ relay = "none"
          /\ port2 = "new")
  /\ [][/\ hpc = "failed" => hpc' = "failed"
        /\ hpc' = "failed" => hpc \in {"loading", "failed"}]_vars

\* createSandbox has rejected after the iframe's error event
C20_Witness ==
  /\ hpc = "failed"
  /\ relay = "none"
  /\ globals # EmptyObj

\* The text between the quotes of the content attribute as srcdoc has it
EmbeddedPolicy == SubSeq(srcdoc, Len(DocHead) + 1, Len(srcdoc) - Len(DocTail))

\* C14: whatever the caller's policy text, the policy text embedded in the
\* markup has no raw " ' < or >; the browser reads the content attribute up
\* to the quote the template wrote, gets the assembled policy as its value,
\* and finds the rest of the document, the relay script included, as the
\* template wrote it.
C14_EmbeddedPolicyCannotBreakOut ==
  /\ policyPc \in {"embedded", "parsed"} =>
       \A i \in 1..Len(EmbeddedPolicy) : EmbeddedPolicy[i] \notin {"\"", "'", "<", ">"}
  /\ policyPc = "parsed" =>
       /\ parsedDoc.rest = DocTail
       /\ parsedDoc.content = fullContentSecurityPolicy

\* The document was read for the policy text " < > & '
C14_Witness ==
  /\ policyPc = "parsed"
  /\ policyOpt = Policy(SpecialsPolicy)
  /\ parsedDoc.rest = DocTail

\* C16: the assembled policy is the baseline followed by the caller's text
\* as written, and by nothing when there is none; with no caller text every
\* kind of fetch is governed by 'none' or by sources that reach nothing over
\* the network.
C16_PolicyIsBaselineThenExtra ==
  policyPc # "input" =>
    /\ StartsWith(fullContentSecurityPolicy, Baseline)
    /\ SubSeq(fullContentSecurityPolicy, Len(Baseline) + 1,
              Len(fullContentSecurityPolicy)) = PolicyText(policyOpt)
    /\ ~policyOpt.given =>
         /\ ~AllowsNetwork(fullContentSecurityPolicy)
         /\ \A d \in FetchDirectives \ {"script-src", "worker-src"} :
              EffectiveSources(fullContentSecurityPolicy, d).sources = <<NoneSource>>

\* A policy was assembled from a caller text that opens the network
C16_Witness ==
  /\ policyPc = "assembled"
  /\ policyOpt = Policy(GithubPolicy)
  /\ AllowsNetwork(fullContentSecurityPolicy)
  /\ EffectiveSources(fullContentSecurityPolicy, "img-src").sources = <<NoneSource>>

\* The scrub loop and setGlobals have run
RealmServing == realmPc \in {"serving", "installed", "rejected"}

\* C15, as stated: once the worker serves, every object of the chain that
\* owns a blocked name holds undefined under it, as a data property.
C15_BlockedNamesHoldUndefined ==
  RealmServing =>
    \A prop \in BlockedNames, level \in 1..ChainDepth :
      realm[level][prop].kind # "absent" =>
        (realm[level][prop].kind = "data" /\ realm[level][prop].value = Undef)

\* C15, amended: once the worker serves, and so before setGlobals or a run
\* is served, every object of the chain that owns a blocked name holds it as
\* a data property, with no getter; its value is undefined, or on the global
\* the value the application installed under that name through globals;
\* and neither an identifier, a property read on the global, nor a
\* descriptor taken at any level of the chain yields the original value.
C15_BlockedNamesScrubbed ==
  /\ RealmServing =>
       \A prop \in BlockedNames, level \in 1..ChainDepth :
         realm[level][prop].kind # "absent" =>
           /\ realm[level][prop].kind = "data"
           /\ \/ realm[level][prop].value = Undef
              \/ /\ realmPc = "installed"
                 /\ level = 1
                 /\ HasKey(realmGlobals, prop)
                 /\ realm[level][prop].value = Get(InstalledTree(realmGlobals), prop)
  /\ realmPc = "serving" =>
       \A prop \in BlockedNames : GetProperty(realm, prop) = Undef
  /\ \A prop \in BlockedNames : realmLast.val # Original(prop)
  /\ (realmLast.expr # "none" /\ realmLast.id \in BlockedNames
      /\ ~HasKey(realmGlobals, realmLast.id)) =>
        (realmLast.val = Undef \/ realmLast.val = Err("ReferenceError"))

\* Sandboxed code took the descriptor of navigator from a prototype that
\* owned its getter, and found undefined
C15_Witness ==
  /\ realmPc = "installed"
  /\ realmLast.expr = "reflect"
  /\ realmLast.id = "navigator"
  /\ realmLast.level = 2
  /\ realm[2]["navigator"].kind = "data"
  /\ realm[1]["navigator"].kind = "absent"
  /\ realmLast.val = Undef

\* C17: once createSandbox has resolved, every top-level key of the globals
\* graph, ambient name or not, evaluates as an identifier to what setGlobals
\* installed for it.
C17_TopLevelKeysBound ==
  realmPc = "installed" =>
    \A i \in 1..Len(realmGlobals.kids) :
      LET key == realmGlobals.kids[i][1]
      IN RunCode(ScopeOf(realm), ReturnPath(<<key>>))
           = Settled(TRUE, Get(InstalledTree(realmGlobals), key))

\* Names the worker scope defines by itself
AmbientNames == BlockedNames \cup {"console", "onmessage"}

\* C19, as stated: a run that references an identifier that was not exposed
\* through globals rejects with a ReferenceError.
C19_UnexposedIdentifierRejects ==
  (realmLast.expr = "identifier" /\ ~HasKey(realmGlobals, realmLast.id)) =>
     (~realmLast.ok /\ realmLast.val = Err("ReferenceError"))

\* C19, amended: a run that references an identifier that is neither exposed
\* through globals nor defined by the worker scope itself rejects with a
\* ReferenceError; an unexposed name of the worker scope resolves, a blocked
\* one to undefined; and no value of the host's global scope is in the
\* guest: its names are not defined there and read as undefined on the global.
C19_OnlyExposedOrAmbientResolve ==
  /\ (realmLast.expr = "identifier" /\ ~HasKey(realmGlobals, realmLast.id)) =>
       IF OwnerLevel(realm, realmLast.id) = 0
       THEN ~realmLast.ok /\ realmLast.val = Err("ReferenceError")
       ELSE /\ realmLast.ok
            /\ realmLast.id \in AmbientNames
            /\ realmLast.id \in BlockedNames => realmLast.val = Undef
  /\ (realmLast.expr = "identifier" /\ realmLast.id \notin AmbientNames
      /\ ~HasKey(realmGlobals, realmLast.id)) =>
       (~realmLast.ok /\ realmLast.val = Err("ReferenceError"))
  /\ \A i \in 1..Len(HostGlobalScope.kids) :
       LET key == HostGlobalScope.kids[i][1]
       IN /\ realmPc \notin {"idle"} =>
               \A level \in 1..ChainDepth : realm[level][key].kind = "absent"
          /\ realmLast.id = key =>
               /\ realmLast.val # HostGlobalScope.kids[i][2]
               /\ realmLast.expr = "property" => realmLast.val = Undef

\* run('return notExposed') was rejected in a session that exposes myNumber
C19_Witness ==
  /\ realmPc = "installed"
  /\ HasKey(realmGlobals, "myNumber")
  /\ realmLast.expr = "identifier"
  /\ realmLast.id = "notExposed"
  /\ ~realmLast.ok
  /\ realmLast.val = Err("ReferenceError")

\* What the last run before run k of session s that assigned __counter gave
\* it, undefined when that session had none
PairLastSet(s, k) ==
  LET S == {j \in 1..(k - 1) : pair[s].runs[j].code.op = "set"}
  IN IF S = {} THEN Undef
     ELSE pair[s].runs[CHOOSE j \in S : \A i \in S : i <= j].code.args[1]

\* C13: with two sessions and their steps interleaved in any order, a run
\* that reads a global reads what the runs of its own session assigned and
\* nothing of the other's; a call from a guest reaches the function its own
\* session's table holds under the token, and no other; and every step
\* changes the state of one session only.
C13_SessionsIsolated ==
  /\ [](\A s \in Sessions : \A k \in DOMAIN pair[s].runs :
          pair[s].runs[k].state # "pending" =>
            /\ pair[s].runs[k].code = ReturnCounter =>
                 /\ pair[s].runs[k].state = "resolved"
                 /\ pair[s].runs[k].val = PairLastSet(s, k)
            /\ pair[s].runs[k].code.op = "call" =>
                 LET f == ValueAt(PairGlobals(s), pair[s].runs[k].code.path).f
                 IN /\ pair[s].runs[k].val = Invoke(f, << >>).val
                    /\ (pair[s].runs[k].state = "resolved") = Invoke(f, << >>).ok)
  /\ [](\A s \in Sessions : \A i \in DOMAIN pair[s].log :
          Fn(pair[s].log[i].f) = ValueAt(PairGlobals(s), <<"call">>))
  /\ [][\E s \in Sessions : \A t \in Sessions \ {s} : pair'[t] = pair[t]]_pairVars

\* Session 1 assigned __counter and read it back, session 2 read undefined;
\* each called its own function under the same token
C13_Witness ==
  /\ pair # << >>
  /\ Len(pair[1].runs) = 2
  /\ pair[1].runs[1].code = SetCounter
  /\ pair[1].runs[2].code = ReturnCounter
  /\ pair[1].runs[2].val = Num(1)
  /\ Len(pair[2].runs) = 2
  /\ pair[2].runs[1].code = ReturnCounter
  /\ pair[2].runs[1].state = "resolved"
  /\ pair[2].runs[1].val = Undef
  /\ pair[2].runs[2].code.op = "call"
  /\ pair[2].runs[2].state = "rejected"
  /\ Len(pair[2].log) = 1

\* The top-level values of opts.globals that are plain data leaves
IsLeafData(value) == value.tag \in {"num", "str", "null"}

\* C21: each run is settled with the outcome of its own code: a run resolves
\* to the value its code returns ('return 1' to 1, 'return <key>' to the data
\* bound to that key), a run whose code falls off the end resolves with no
\* value, and in a sequence of runs each one holds the result of its own
\* code, whatever the runs before it returned.
C21_RunSettlesWithOwnOutcome ==
  \A k \in DOMAIN runs :
    IsSettled(k) =>
         /\ runs[k].code = ReturnOne =>
              (runs[k].state = "resolved" /\ runs[k].val = Num(1))
         /\ runs[k].code.op = "set" =>
              (runs[k].state = "resolved" /\ runs[k].val = Undef)
         /\ (/\ runs[k].code.op = "read"
             /\ Len(runs[k].code.path) = 1
             /\ IsLeafData(ValueAt(globals, runs[k].code.path))) =>
              (/\ runs[k].state = "resolved"
               /\ runs[k].val = ValueAt(globals, runs[k].code.path))

\* 'return 1' resolved to 1 and the next run, 'return myNumber', to 42
C21_Witness ==
  /\ Len(runs) = 2
  /\ runs[1].code = ReturnOne
  /\ runs[1].state = "resolved"
  /\ runs[1].val = Num(1)
  /\ runs[2].code = ReturnPath(<<"myNumber">>)
  /\ runs[2].state = "resolved"
  /\ runs[2].val = Num(42)

\* typeof value === 'function'
IsCallable(value) == TypeOf(value) = "function"

\* The leaves below an object in the order Object.entries walks them, depth first
RECURSIVE LeafSeq(_, _)
LeafSeq(kids, i) ==
  IF i > Len(kids) THEN << >>
  ELSE (IF kids[i][2].tag = "obj"
        THEN LeafSeq(kids[i][2].kids, 1)
        ELSE <<kids[i][2]>>) \o LeafSeq(kids, i + 1)

\* The callables of the graph being split, in traversal order
SourceCallables == SelectSeq(LeafSeq(splitSource.kids, 1), IsCallable)

\* C22: after the splitter has run on a graph with n callable positions, the
\* table has exactly n entries; the tokens in the methods tree, read in
\* traversal order, are 0, 1, .., n-1, each once; and the table entry of a
\* token is the callable found in the graph at the position where the methods
\* tree holds that token.
C22_TokensNumberCallables ==
  splitPc = "split" =>
    LET n == Len(SourceCallables)
    IN /\ Len(splitOut.table) = n
       /\ LeafSeq(splitOut.methods.kids, 1) = [i \in 1..n |-> Num(i - 1)]
       /\ \A p \in PathsOf(splitOut.methods) :
            LET token == ValueAt(splitOut.methods, p)
            IN token.tag # "obj" =>
                 /\ token.tag = "num"
                 /\ IsCallable(ValueAt(splitSource, p))
                 /\ splitOut.table[token.v + 1] = ValueAt(splitSource, p)

\* { a: { a: add }, b: fetchValue } was split: a.a holds 0 and b holds 1
C22_Witness ==
  /\ splitPc = "split"
  /\ splitSource = Obj(Keyed(<<Obj(Keyed(<<Fn("add")>>)), Fn("fetchValue")>>))
  /\ splitOut.table = <<Fn("add"), Fn("fetchValue")>>
  /\ ValueAt(splitOut.methods, <<"a", "a">>) = Num(0)
  /\ ValueAt(splitOut.methods, <<"b">>) = Num(1)

\* C23: a subtree is attached to the methods tree at a key only when the
\* value at that key holds a callable: no node of the methods tree below the
\* root is an empty mapping, a position of the methods tree is a position of
\* the graph that holds a callable, and a key whose value holds only data
\* has no entry in the methods tree while its data is in the constants tree.
C23_MethodsTreeHoldsNoEmptyBranch ==
  splitPc = "split" =>
    /\ \A p \in PathsOf(splitOut.methods) :
         /\ ValueAt(splitOut.methods, p) # EmptyObj
         /\ p \in PathsOf(splitSource)
         /\ HasFn(ValueAt(splitSource, p))
    /\ \A p \in PathsOf(splitSource) :
         ~HasFn(ValueAt(splitSource, p)) =>
           /\ p \notin PathsOf(splitOut.methods)
           /\ ValueAt(splitOut.constants, p) = ValueAt(splitSource, p)

\* { a: { a: 1 }, b: add } was split: methods has b only, constants has a.a
C23_Witness ==
  /\ splitPc = "split"
  /\ splitSource = Obj(Keyed(<<Obj(Keyed(<<Num(1)>>)), Fn("add")>>))
  /\ Keys(splitOut.methods) = <<"b">>
  /\ ValueAt(splitOut.constants, <<"a", "a">>) = Num(1)

\* C30: whatever methodId and params an onMethod request carries, the handler
\* invokes only a function of the session's table, the one at the index the
\* number names, which is a callable of the graph the table was built from;
\* serving the request leaves the table as the splitter built it; and a
\* methodId that is not a number invokes nothing and yields no value.
C30_OnlyTableFunctionsInvoked ==
  splitPc = "served" =>
    /\ splitOut = ExtractMethods(splitSource, << >>)
    /\ splitCall.invoked =>
         /\ TypeOf(splitCall.methodId) = "number"
         /\ splitCall.methodId.v \in 0..(Len(splitOut.table) - 1)
         /\ splitOut.table[splitCall.methodId.v + 1] = Fn(splitCall.f)
         /\ \E i \in 1..Len(SourceCallables) : SourceCallables[i] = Fn(splitCall.f)
    /\ TypeOf(splitCall.methodId) # "number" =>
         /\ ~splitCall.invoked
         /\ splitCall.ok
         /\ splitCall.val = Undef

\* A request with methodId '0' was served on a table that has an entry 0
C30_Witness ==
  /\ splitPc = "served"
  /\ Len(splitOut.table) > 0
  /\ splitCall.methodId = Str("0")
  /\ ~splitCall.invoked
  /\ splitCall.val = Undef

\* The setGlobals requests a queue holds
SetGlobalsIn(queue) ==
  {i \in 1..Len(queue) : queue[i].kind = "req" /\ queue[i].method = "setGlobals"}

\* The run requests a queue holds
RunsIn(queue) ==
  {i \in 1..Len(queue) : queue[i].kind = "req" /\ queue[i].method = "run"}

\* What setGlobals binds in an empty scope for the trees the host holds
Installed == SetGlobals(EmptyObj, constants, methods)

\* C24: in a session the setGlobals request is sent once: none exists before
\* the iframe has loaded, one is in flight at most, and the step that sends
\* it leaves the only state it is sent from for good.  createSandbox is
\* ready only after the guest has handled the request, when every key of the
\* trees is bound in the guest scope; no run exists or is in flight before
\* that; and from the moment the trees are built the host never changes
\* them, nor does a later step unbind what was installed.
C24_SetGlobalsOnceBeforeAnyRun ==
  /\ [](LET sent == SetGlobalsIn(h2r \o r2w)
        IN /\ Cardinality(sent) <= 1
           /\ (hpc \in {"start", "loading"}) => (sent = {} /\ guestScope = EmptyObj)
           /\ (hpc = "ready") =>
                /\ sent = {}
                /\ LET bound == Installed.kids
                   IN \A i \in 1..Len(bound) :
                        Get(guestScope, bound[i][1]) = bound[i][2]
           /\ (RunsIn(h2r \o r2w) # {} \/ runs # << >>) => hpc = "ready")
  /\ [][/\ (SetGlobalsIn(h2r') # {} /\ SetGlobalsIn(h2r) = {}) =>
             (hpc = "loading" /\ hpc' = "awaitSetGlobals")
        /\ (hpc' = "loading") => (hpc \in {"start", "loading"})
        /\ (hpc # "start") => UNCHANGED <<constants, methods>>]_vars

\* createSandbox is ready, the guest scope holds the installed proxy, and a
\* run has been issued
C24_Witness ==
  /\ hpc = "ready"
  /\ Installed # EmptyObj
  /\ \E i \in 1..Len(Installed.kids) :
       /\ Installed.kids[i][2].tag = "proxy"
       /\ Get(guestScope, Installed.kids[i][1]) = Installed.kids[i][2]
  /\ Len(runs) = 1
  /\ RunsIn(h2r) # {}

\* run('return await <path>(..)')
IsCallRun(r) == r.code.op = "call"

\* The runs that call a proxy, in the order they were issued
CallRuns == SelectSeq(runs, IsCallRun)

\* How many messages of a kind a queue holds for the call with this id
CountIn(queue, kind, id) ==
  Cardinality({i \in 1..Len(queue) : queue[i].kind = kind /\ queue[i].id = id})

\* C25: a proxy invocation issues exactly one onMethod request, carrying the
\* token and the arguments, which causes exactly one invocation in the host,
\* and the call settles exactly once with the outcome of that request.  The
\* i-th invocation the host logs is that of the i-th run that calls a proxy,
\* with its token, function and arguments; a settled calling run has its
\* invocation logged; a call the guest awaits is at any time one request on
\* its way, or one host function running, or one response on its way (at
\* most one of them after dispose, exactly one before); and no response
\* travels to the guest that no call awaits.
C25_OneRequestOneInvocation ==
  /\ Len(hostLog) <= Len(CallRuns)
  /\ \A i \in DOMAIN hostLog :
       /\ hostLog[i].methodId = ValueAt(methods, CallRuns[i].code.path)
       /\ hostLog[i].f = Callee(CallRuns[i].code)
       /\ hostLog[i].args = CallRuns[i].code.args
  /\ \A i \in DOMAIN CallRuns :
       CallRuns[i].state \in {"resolved", "rejected"} => i <= Len(hostLog)
  /\ \A t \in guestTasks :
       t.call # 0 =>
         LET requests  == CountIn(w2r \o r2h, "req", t.call)
             running   == Cardinality({c \in hostAsync : c.id = t.call})
             responses == CountIn(h2r \o r2w, "res", t.call)
         IN /\ requests + running + responses <= 1
            /\ disposeCalls = 0 => requests + running + responses = 1
  /\ \A i \in 1..Len(h2r \o r2w) :
       (h2r \o r2w)[i].kind = "res" =>
         \E t \in guestTasks : t.call = (h2r \o r2w)[i].id

\* Two runs have each called a proxy and settled: two invocations are logged
C25_Witness ==
  /\ Len(CallRuns) = 2
  /\ Len(hostLog) = 2
  /\ CallRuns[1].state = "resolved"
  /\ CallRuns[2].state \in {"resolved", "rejected"}
  /\ CallRuns[1].code # CallRuns[2].code
  /\ guestTasks = {}

\* The result of the i-th call of a code text that calls two proxies
OwnResult(code, i) == ReturnOf(ValueAt(globals, <<code.path[i]>>).f, code.args[i])

\* C26: when the code of one run has several proxy calls outstanding at
\* once, each is served by the host and each settles with the result of its
\* own invocation, in whatever order the host functions complete, and the
\* run's response comes after them and holds those results.  A result the
\* guest keeps while the run awaits another call is that of the call it
\* belongs to; a settled run has resolved to the results in the order of its
\* calls, both invocations are logged with their own token and arguments,
\* and none of its calls is still awaited or running.
C26_ConcurrentCallsKeepOwnResult ==
  /\ \A t \in guestTasks :
       \A g \in t.got : g[2] = OwnResult(runs[t.run - 1].code, g[1])
  /\ \A k \in DOMAIN runs :
       (runs[k].code.op = "callAll" /\ IsSettled(k)) =>
         LET code == runs[k].code
         IN /\ runs[k].state = "resolved"
            /\ runs[k].val = Arr(<<OwnResult(code, 1), OwnResult(code, 2)>>)
            /\ \A i \in 1..2 :
                 \E j \in DOMAIN hostLog :
                   /\ hostLog[j].methodId = ValueAt(methods, <<code.path[i]>>)
                   /\ hostLog[j].args = code.args[i]
            /\ ~\E t \in guestTasks : t.run = k + 1
            /\ (k = Len(runs)) => hostAsync = {}

\* The second call of a run has settled while the first is still awaited:
\* the host functions completed in the reverse of the order they were called
C26_Witness ==
  \E t \in guestTasks :
    /\ runs[t.run - 1].code.op = "callAll"
    /\ runs[t.run - 1].state = "pending"
    /\ t.slot = 1
    /\ t.got = {<<2, OwnResult(runs[t.run - 1].code, 2)>>}

\* The host function of a call is running and dispose() has been called
DisposedWhileServing == disposeCalls > 0 /\ hostAsync # {}

\* A host function that was running when dispose() was called completes,
\* and nothing reaches the guest: no message is posted and no guest state moves
C27_ResultDiscarded ==
  [][(disposeCalls > 0 /\ hostAsync' # hostAsync) =>
       (h2r' = h2r /\ UNCHANGED <<r2w, guestVars>>)]_vars

\* C27: when dispose() is called while a host function invoked by the guest
\* is still running, the function's eventual result is discarded: its
\* completion posts no response and no guest code resumes; and the top-level
\* run is forced to rejected, so that no run is pending once dispose() has
\* returned with the function still running.
C27_DisposeDuringHostCall ==
  /\ C27_ResultDiscarded
  /\ [](DisposedWhileServing =>
          \A k \in DOMAIN runs :
            ~runs[k].afterDispose => IsSettled(k))

\* One direction of the relay in a step: a message leaves the inbound queue
\* only as its oldest message and is then the newest of the outbound queue,
\* as it was; the outbound queue grows by nothing else; and the relay takes
\* such a step only once it is bridging, and keeps its own state in it
Forwards(inbound, inboundNext, outbound, outboundNext) ==
  /\ (Len(inboundNext) < Len(inbound)) =>
       /\ relay = "bridging"
       /\ inboundNext = Tail(inbound)
       /\ outboundNext = Append(outbound, Head(inbound))
       /\ UNCHANGED <<relay, workers>>
  /\ (Len(outboundNext) > Len(outbound)) => (Len(inboundNext) < Len(inbound))

\* C28: once initialised, the relay forwards every message of each direction
\* exactly once, unchanged and in order, between the host port and the
\* worker: it never drops, duplicates or reorders a message and does not act
\* on what a message holds.
C28_RelayForwardsInOrder ==
  [][/\ Forwards(h2r, h2r', r2w, r2w')
     /\ Forwards(w2r, w2r', r2h, r2h')]_vars

\* Two requests of the guest wait at the host port in the order they were
\* posted: the relay has passed a run request down and both requests up
C28_Witness ==
  /\ relay = "bridging"
  /\ Len(r2h) = 2
  /\ r2h[1].kind = "req"
  /\ r2h[2].kind = "req"
  /\ r2h[1].id < r2h[2].id
  /\ w2r = << >>

\* What one character becomes when a text is escaped in a single pass
EntityOf(ch) ==
  CASE ch = "&" -> Amp
    [] ch = "\"" -> Quot
    [] ch = "'" -> Apos
    [] ch = "<" -> Lt
    [] ch = ">" -> Gt
    [] OTHER -> <<ch>>

\* A text escaped from left to right, every character once
RECURSIVE SinglePass(_)
SinglePass(str) ==
  IF str = << >> THEN << >> ELSE EntityOf(Head(str)) \o SinglePass(Tail(str))

\* C29: for every policy text, what the chain of five replaceAll passes
\* yields is what a single pass from left to right yields that replaces
\* each & " ' < > by its entity and copies every other character: nothing
\* an earlier pass produced is expanded by a later one, and every text has
\* an escaped form.
C29_EscapeIsSinglePass ==
  policyPc \in {"embedded", "parsed"} =>
    EmbeddedPolicy = SinglePass(fullContentSecurityPolicy)

\* The caller's text &<& is embedded as &amp;&lt;&amp;
C29_Witness ==
  /\ policyPc = "embedded"
  /\ policyOpt = Policy(<<"&", "<", "&">>)
  /\ SubSeq(EmbeddedPolicy, Len(EmbeddedPolicy) - Len(Amp \o Lt \o Amp) + 1,
            Len(EmbeddedPolicy)) = Amp \o Lt \o Amp

\* C31: the relay spawns at most one worker in its lifetime.  A worker is
\* created only by the step that handles a slopjail:init message while the
\* listener is registered and no worker exists, and that step makes the
\* relay a bridge; every other window message, one of another type or an
\* init message after the first, is taken from the window without a change
\* to the relay or the number of workers; and a bridge stays a bridge.
C31_AtMostOneWorker ==
  /\ [](workers <= 1)
  /\ [][/\ (workers' # workers) =>
             /\ workers = 0
             /\ workers' = 1
             /\ relay = "listening"
             /\ winQ # << >>
             /\ Head(winQ).type = "slopjail:init"
             /\ relay' = "bridging"
        /\ (/\ winQ # << >>
            /\ winQ' = Tail(winQ)
            /\ ~(relay = "listening" /\ Head(winQ).type = "slopjail:init")) =>
             UNCHANGED <<relay, workers>>
        /\ (relay = "bridging") => (relay' = "bridging")]_vars

\* The worker exists, the relay is a bridge, and one more slopjail:init
\* message is at the window
C31_Witness ==
  /\ workers = 1
  /\ relay = "bridging"
  /\ winQ # << >>
  /\ Head(winQ) = InitMessage


\* Objects a key of object n holds
HeapSucc(heap, n) ==
  {heap[n][i][2].node : i \in {j \in 1..Len(heap[n]) : heap[n][j][2].tag = "ref"}}

RECURSIVE HeapReach(_, _, _)
\* Objects reached from object n along one to k keys
HeapReach(heap, n, k) ==
  IF k = 0 THEN {}
  ELSE HeapSucc(heap, n)
         \cup UNION {HeapReach(heap, m, k - 1) : m \in HeapSucc(heap, n)}

\* opts.globals holds an object that is reachable from itself
Cyclic(heap) ==
  LET far == Cardinality(HeapNodes)
  IN \E n \in {1} \cup HeapReach(heap, 1, far) : n \in HeapReach(heap, n, far)

\* An object of opts.globals is held under two keys
Shared(heap) ==
  \E n, m \in HeapNodes : \E i, j \in 1..Len(heap[n]) :
    /\ i # j
    /\ heap[n][i][2] = Ref(m)
    /\ heap[n][j][2] = Ref(m)

RECURSIVE Unfold(_, _)
\* The value graph below object n of a heap without a cycle, as a tree
Unfold(heap, n) ==
  Obj([i \in 1..Len(heap[n]) |->
        <<heap[n][i][1],
          IF heap[n][i][2].tag = "ref" THEN Unfold(heap, heap[n][i][2].node)
          ELSE heap[n][i][2]>>])

C33_RejectionLeavesNothingBehind ==
  hpc = "failed" => (~iframeAttached /\ port2 = "closed")


\* The characters escapeHtml replaces
Specials == {e.ch : e \in Entities}

HasSpecial(str) == \E i \in 1..Len(str) : str[i] \in Specials

\* Texts a caller text is compared with: every text of up to two characters,
\* the texts that spell entities, and what the text decodes and escapes to
Rivals(text) ==
  UNION {[1..n -> PolicyChars] : n \in 0..2}
    \cup {Lt, Amp \o Tail(Lt), SpecialsPolicy, DecodeEntities(text), EscapeHtml(text)}

\* C34: escapeHtml is undone by decoding the five entities: the escaped
\* policy decodes to the assembled policy and the escaped caller text to the
\* caller text, also when the text spells an entity itself; no different
\* text has the same escaped form as the caller's; and escaping a text that
\* holds one of & " ' < > a second time changes it.
C34_EscapeIsReversible ==
  policyPc \in {"embedded", "parsed"} =>
    LET text == PolicyText(policyOpt)
    IN /\ DecodeEntities(EmbeddedPolicy) = fullContentSecurityPolicy
       /\ DecodeEntities(EscapeHtml(text)) = text
       /\ LET escaped == EscapeHtml(text)
          IN \A other \in Rivals(text) : EscapeHtml(other) = escaped => other = text
       /\ EscapeHtml(EmbeddedPolicy) # EmbeddedPolicy
       /\ HasSpecial(text) => EscapeHtml(EscapeHtml(text)) # EscapeHtml(text)

\* The caller's text &amp;lt; is embedded as &amp;amp;lt;
C34_Witness ==
  /\ policyPc = "embedded"
  /\ policyOpt = Policy(Amp \o Tail(Lt))
  /\ EscapeHtml(PolicyText(policyOpt)) = Amp \o Tail(Amp) \o Tail(Lt)
  /\ SubSeq(EmbeddedPolicy, Len(Baseline) + Len(Apos) * 6 - 6 + 1, Len(EmbeddedPolicy))
       = Amp \o Tail(Amp) \o Tail(Lt)

====
